---------------------------- MODULE Spec2Model ----------------------------
(***************************************************************************)
(* Tracking and unique-detection engine of the video analysis backend:     *)
(* VideoProcessorService (services/video_processor_service.py) driven by   *)
(* the /video/process handler (main.py).                                   *)
(*                                                                         *)
(* One VideoProcessorService instance is shared by every invocation of     *)
(* process_video.  An invocation runs on the asyncio event loop: between   *)
(* two suspension points it runs alone (variable running), at a suspension *)
(* point (the progress callback, asyncio.sleep) other work may run.        *)
(*                                                                         *)
(* Numbers: a centre coordinate is kept doubled (2x + width) and a         *)
(* distance doubled with it, so that all arithmetic stays in the integers; *)
(* an IoU and a combined score are fractions <<numerator, denominator>>;   *)
(* a confidence is in hundredths.                                          *)
(***************************************************************************)
EXTENDS Integers, Sequences, FiniteSets, TLC

\* ------------------------------------------------------------- bounds
\* invocations of process_video begun on the one service instance
MaxCalls == 2
\* invocations in flight at the same time, when requests overlap
MaxSlots == 2
\* frames of a video, one invocation looked at in depth
MaxFrames == 4
\* frames of a video, several invocations
ShortFrames == 2
\* frames of the long video without detections (reaches the 10th-frame yield)
LongFrames == 11
\* largest frame_skip passed by a caller
MaxSkip == 2
\* largest max_missing_frames the service is constructed with
MaxMissing == 1
\* websockets that clients open on /ws
MaxConnections == 3

\* ------------------------------------------------- program constants
\* iou_threshold = 0.5, as the fraction IouThresholdNum / IouThresholdDen
IouThresholdNum == 1
IouThresholdDen == 2
\* distance_threshold = 50.0
DistanceThreshold == 50
\* histories keep the last 10 entries
HistoryCap == 10
\* asyncio.sleep after every 10th processed frame
YieldEvery == 10
\* _create_detection_crop: target_size = 224, padding 5000 / bbox_area
TargetSize == 224
PaddingArea == 5000

\* the requests in flight: slot t holds the arguments and locals of one
\* invocation and is taken again by a later one once that has ended
Slots == 1..MaxSlots
\* the WebSocket objects, by order of creation
Connections == 1..MaxConnections

\* ------------------------------------------------------------- inputs
BoxA == [x |-> 100, y |-> 100, width |-> 50, height |-> 50]
\* far from BoxA: no overlap, centre distance 200
BoxB == [x |-> 300, y |-> 100, width |-> 50, height |-> 50]
\* near BoxA: IoU 1/4, centre distance 30
BoxC == [x |-> 130, y |-> 100, width |-> 50, height |-> 50]

DetA == [class_name |-> "bicycle", confidence |-> 85, bbox |-> BoxA]
DetB == [class_name |-> "car", confidence |-> 60, bbox |-> BoxB]
DetC == [class_name |-> "bicycle", confidence |-> 70, bbox |-> BoxC]
\* the box of DetA once more, under another class and confidence: for every
\* track it has the same IoU, distance and score as DetA
DetD == [class_name |-> "motorcycle", confidence |-> 40, bbox |-> BoxA]

\* two objects 80 apart (BoxA and BoxE) and, a frame later, two detections
\* between and beside them: BoxG is within the distance threshold of both
\* (45 from BoxA, 35 from BoxE), BoxF of BoxA only (48), and BoxG scores
\* better than BoxF against BoxA
BoxE == [x |-> 180, y |-> 100, width |-> 50, height |-> 50]
BoxF == [x |-> 52, y |-> 100, width |-> 50, height |-> 50]
BoxG == [x |-> 145, y |-> 100, width |-> 50, height |-> 50]
DetE == [class_name |-> "car", confidence |-> 55, bbox |-> BoxE]
DetF == [class_name |-> "bicycle", confidence |-> 65, bbox |-> BoxF]
DetG == [class_name |-> "car", confidence |-> 75, bbox |-> BoxG]

\* boxes on the thresholds: BoxH is at centre distance 50 from BoxA without
\* overlap, BoxJ has IoU 1/2 with BoxI at centre distance 100
BoxH == [x |-> 150, y |-> 100, width |-> 50, height |-> 50]
BoxI == [x |-> 0, y |-> 170, width |-> 300, height |-> 300]
BoxJ == [x |-> 100, y |-> 170, width |-> 300, height |-> 300]
DetH == [class_name |-> "bicycle", confidence |-> 50, bbox |-> BoxH]
DetI == [class_name |-> "car", confidence |-> 90, bbox |-> BoxI]
DetJ == [class_name |-> "car", confidence |-> 80, bbox |-> BoxJ]

\* what detect_objects may return for one frame
DetLists == { <<>>, <<DetA>>, <<DetC>>, <<DetA, DetB>>, <<DetA, DetD>> }
ShortDetLists == { <<>>, <<DetA>> }
\* with the lists of the scripted videos
AllDetLists ==
    DetLists \cup { <<DetB>>, <<DetD>>, <<DetA, DetE>>, <<DetF, DetG>>,
                    <<DetH>>, <<DetI>>, <<DetJ>> }

\* frame.shape of the usual video, and the width of a narrow one that ends
\* left of BoxB
FrameWidth == 640
FrameHeight == 480
NarrowWidth == 200

\* a video file: whether cv2 can open it, how many frames cap.read() yields,
\* the CAP_PROP_FRAME_COUNT and CAP_PROP_FPS it reports, the shape of its
\* frames, and what the detector finds on them: "free" for any of the lists,
\* "none" for nothing, "steady" for DetA on the even and DetC on the odd
\* frames, "apart" for DetA on the even and DetB on the odd frames, "mixed"
\* for DetC on the even and DetD on the odd frames, "between" for DetA and
\* DetE on frame 0, DetF and DetG on frame 1 and nothing after, "edge" for
\* DetA, DetH, DetI, DetJ on the frames 0 to 3 and nothing after
Video(openable, nframes, total, fps, width, script) ==
    [ openable |-> openable, nframes |-> nframes, total |-> total,
      fps |-> fps, width |-> width, height |-> FrameHeight,
      script |-> script ]

NoVideo == Video(FALSE, 0, 0, 0, FrameWidth, "none")

\* an unopenable file, files that report no frame count or no frame rate,
\* and the long file
OddVideos ==
    { NoVideo }
    \cup { Video(TRUE, n, 0, 30, FrameWidth, "free") : n \in {0, 1} }
    \cup { Video(TRUE, 1, 1, 0, FrameWidth, "free") }
    \cup { Video(TRUE, LongFrames, LongFrames, 30, FrameWidth, "none") }

\* a narrow file, a long file with one object on every frame, a file with
\* an object in one of two far places by turns, and a file with an object
\* that the detector labels bicycle and motorcycle by turns, and a file
\* with two objects and then two detections between and beside them, and a
\* file whose detections lie on the thresholds
DeepVideos ==
    { Video(TRUE, ShortFrames, ShortFrames, 30, NarrowWidth, "free"),
      Video(TRUE, LongFrames, LongFrames, 30, FrameWidth, "steady"),
      Video(TRUE, MaxFrames, MaxFrames, 30, FrameWidth, "apart"),
      Video(TRUE, MaxFrames, MaxFrames, 30, FrameWidth, "mixed"),
      Video(TRUE, MaxFrames, MaxFrames, 30, FrameWidth, "between"),
      Video(TRUE, MaxFrames, MaxFrames, 30, FrameWidth, "edge") }

\* well-formed files of up to n frames
PlainVideos(n) ==
    { Video(TRUE, k, k, 30, FrameWidth, "free") : k \in 0..n }

VARIABLES
    \* YOLOv8mService.is_loaded
    is_loaded,
    \* VideoProcessorService fields
    max_missing_frames, tracked_objects, unique_detections, frame_skip,
    progress_callback,
    \* the Python heap of result lists: unique_detections, result and
    \* returned hold references (indexes) into it
    heap,
    \* uuid4: the next fresh identity
    next_id,
    \* how requests arrive: "one" invocation on a fresh instance, "calls"
    \* one after the other, "overlap" while another one is suspended
    mode,
    \* the slot that holds the event loop, 0 when it is free
    running,
    \* invocations begun so far
    calls,
    \* the lists handed back to callers so far
    returned,
    \* per slot: the number of the invocation it holds, its position, the
    \* error it raised, its source handle, arguments and locals
    inv, pc, err, cap, video, skip_arg, frame_number, processed_frames,
    events, result,
    \* history of the invocation in a slot: the detector's answers per
    \* retained frame and the identities of the tracks it created
    detlog, created,
    \* a detection handed to the suggestion builders on its own, and the
    \* lists they returned for it
    probe, answer,
    \* ConnectionManager.active_connections, and the state of every
    \* websocket: "new" before /ws has accepted it, "open", "closed"
    active_connections, sockets,
    \* the broadcast: its position, the iterator of its loop, the
    \* connection of the pending send_text and its list "disconnected"
    sending,
    \* history of the broadcast: the messages every websocket was sent, and
    \* the connections registered ever since it began
    received, stayed

vars == << is_loaded, max_missing_frames, tracked_objects, unique_detections,
           frame_skip, progress_callback, heap, next_id, mode, running,
           calls, returned, inv, pc, err, cap, video, skip_arg, frame_number,
           processed_frames, events, result, detlog, created, probe, answer,
           active_connections, sockets, sending, received, stayed >>

\* the connection manager and what is kept about its broadcast
manager == << active_connections, sockets, sending, received, stayed >>
\* what no step of an invocation changes
setup == << max_missing_frames, mode, probe, answer, manager >>
\* the engine state of the service instance
engine == << tracked_objects, unique_detections, frame_skip, heap, next_id >>
\* the history kept about an invocation
history == << inv, detlog, created >>

\* ------------------------------------------------------ pure helpers
Last(s) == s[Len(s)]

\* s[:n], the oldest entries
LastN_Oldest(s, n) ==
    IF Len(s) <= n THEN s ELSE SubSeq(s, 1, n)

\* s[-n:]
LastN(s, n) ==
    IF Len(s) <= n THEN s ELSE SubSeq(s, Len(s) - n + 1, Len(s))

Max2(a, b) == IF a >= b THEN a ELSE b
Min2(a, b) == IF a <= b THEN a ELSE b

\* the exact root of a perfect square (the boxes of the model are chosen so
\* that every doubled centre distance is an integer)
RECURSIVE SqrtBetween(_, _, _)
SqrtBetween(n, lo, hi) ==
    IF lo = hi THEN lo
    ELSE LET mid == (lo + hi + 1) \div 2
         IN  IF mid * mid <= n THEN SqrtBetween(n, mid, hi)
             ELSE SqrtBetween(n, lo, mid - 1)

Sqrt(n) == SqrtBetween(n, 0, Min2(n, 30000))

\* (center_x, center_y) of a detection's box, doubled
Center2(bbox) == << 2 * bbox.x + bbox.width, 2 * bbox.y + bbox.height >>

\* TrackedObject(id, class_name, last_seen_frame): the dataclass defaults
NewTrackedObject(id, class_name, frame) ==
    [ id |-> id, class_name |-> class_name, last_seen_frame |-> frame,
      track_history |-> <<>>, confidence_history |-> <<>>,
      bbox_history |-> <<>>, age |-> 0 ]

\* "if len(self.track_history) > 10: h = h[-10:]" of a history h, n being
\* len(self.track_history) after the append
Trim(h, n) ==
    IF n > HistoryCap THEN LastN(h, HistoryCap) ELSE h

\* TrackedObject.update with the last_seen_frame assignment left out
TrackedObjectUpdate_KeepsLastSeen(trk, detection, frame) ==
    [ trk EXCEPT
        !.track_history =
            Trim(Append(@, Center2(detection.bbox)), Len(trk.track_history) + 1),
        !.confidence_history =
            Trim(Append(@, detection.confidence), Len(trk.track_history) + 1),
        !.bbox_history =
            Trim(Append(@, detection.bbox), Len(trk.track_history) + 1),
        !.age = @ + 1 ]

\* TrackedObject.update
TrackedObjectUpdate(trk, detection, frame) ==
    [ trk EXCEPT
        !.track_history =
            Trim(Append(@, Center2(detection.bbox)), Len(trk.track_history) + 1),
        !.confidence_history =
            Trim(Append(@, detection.confidence), Len(trk.track_history) + 1),
        !.bbox_history =
            Trim(Append(@, detection.bbox), Len(trk.track_history) + 1),
        !.last_seen_frame = frame,
        !.age = @ + 1 ]

RECURSIVE Gcd(_, _)
Gcd(a, b) == IF b = 0 THEN a ELSE Gcd(b, a % b)

\* the fraction n/d in lowest terms (d > 0)
Frac(n, d) == << n \div Gcd(n, d), d \div Gcd(n, d) >>

\* inter_x2 - inter_x1 and inter_y2 - inter_y1 of _calculate_iou
InterWidth(a, b) == Min2(a.x + a.width, b.x + b.width) - Max2(a.x, b.x)
InterHeight(a, b) == Min2(a.y + a.height, b.y + b.height) - Max2(a.y, b.y)

\* _calculate_iou from the intersection's width w and height h on:
\* inter_area / union_area as a fraction, <<0, 1>> for 0.0
IouOfBoxes(w, h, det_bbox, last_bbox) ==
    IF w <= 0 \/ h <= 0 THEN << 0, 1 >>
    ELSE IF det_bbox.width * det_bbox.height
            + last_bbox.width * last_bbox.height - w * h > 0
      THEN Frac(w * h, det_bbox.width * det_bbox.height
                       + last_bbox.width * last_bbox.height - w * h)
      ELSE << 0, 1 >>

\* _calculate_iou
CalculateIou(detection, trk) ==
    IF trk.bbox_history = <<>> THEN << 0, 1 >>
    ELSE IouOfBoxes(InterWidth(detection.bbox, Last(trk.bbox_history)),
                    InterHeight(detection.bbox, Last(trk.bbox_history)),
                    detection.bbox, Last(trk.bbox_history))

\* euclidean(p, q) of two doubled centres
Euclidean2(p, q) ==
    Sqrt((p[1] - q[1]) * (p[1] - q[1]) + (p[2] - q[2]) * (p[2] - q[2]))

\* _calculate_center_distance, doubled (called only for a track with history:
\* _match_detections_to_tracks skips the others)
CalculateCenterDistance2(detection, trk) ==
    Euclidean2(Center2(detection.bbox), Last(trk.track_history))

\* score = (1 - iou) + (distance / self.distance_threshold), as a fraction
ScoreOf(iou, distance2) ==
    Frac(2 * DistanceThreshold * (iou[2] - iou[1]) + distance2 * iou[2],
         2 * DistanceThreshold * iou[2])

Score(detection, trk) ==
    ScoreOf(CalculateIou(detection, trk),
            CalculateCenterDistance2(detection, trk))

FracLess(p, q) == p[1] * q[2] < q[1] * p[2]

\* the threshold test left out: every detection is a candidate
EligibleOf_NoGate(iou, distance2) == TRUE

\* iou > self.iou_threshold or distance < self.distance_threshold
EligibleOf(iou, distance2) ==
    \/ iou[1] * IouThresholdDen > IouThresholdNum * iou[2]
    \/ distance2 < 2 * DistanceThreshold

\* the threshold test with the class compared as well
Eligible_SameClass(detection, trk) ==
    /\ detection.class_name = trk.class_name
    /\ EligibleOf(CalculateIou(detection, trk),
                  CalculateCenterDistance2(detection, trk))

Eligible(detection, trk) ==
    EligibleOf(CalculateIou(detection, trk),
               CalculateCenterDistance2(detection, trk))

\* "score <= best_score" over the candidates E in list order: the last
\* index of least score, 0 for best_match = None
FirstLeast_LastOfTies(E, score) ==
    IF E = {} THEN 0
    ELSE CHOOSE i \in E : \A j \in E \ {i} :
           \/ FracLess(score[i], score[j])
           \/ ~FracLess(score[j], score[i]) /\ i > j

\* "score < best_score" over the candidates E in list order: the first
\* index of least score, 0 for best_match = None
FirstLeast(E, score) ==
    IF E = {} THEN 0
    ELSE CHOOSE i \in E : \A j \in E \ {i} :
           \/ FracLess(score[i], score[j])
           \/ ~FracLess(score[j], score[i]) /\ i < j

\* the inner loop with "break" at the first candidate: the score is not
\* compared
BestMatch_FirstEligible(trk, unmatched) ==
    IF \E i \in 1..Len(unmatched) : Eligible(unmatched[i], trk)
      THEN CHOOSE i \in 1..Len(unmatched) :
             /\ Eligible(unmatched[i], trk)
             /\ \A j \in 1..(i - 1) : ~Eligible(unmatched[j], trk)
      ELSE 0

\* the inner loop of _match_detections_to_tracks
BestMatch(trk, unmatched) ==
    FirstLeast({ i \in 1..Len(unmatched) : Eligible(unmatched[i], trk) },
               [ i \in 1..Len(unmatched) |-> Score(unmatched[i], trk) ])

\* unmatched_detections.pop(i)
Pop(s, i) == SubSeq(s, 1, i - 1) \o SubSeq(s, i + 1, Len(s))

\* _match_detections_to_tracks from track k on: matched_objects as a sequence
\* of <<position of the track, detection>> and the detections left over
RECURSIVE MatchFrom(_, _, _, _)
MatchFrom(tracks, k, matched, unmatched) ==
    IF k > Len(tracks) THEN [ matched |-> matched, unmatched |-> unmatched ]
    ELSE IF tracks[k].track_history = <<>>
      THEN MatchFrom(tracks, k + 1, matched, unmatched)
      ELSE LET b == BestMatch(tracks[k], unmatched)
           IN  IF b = 0 THEN MatchFrom(tracks, k + 1, matched, unmatched)
               ELSE MatchFrom(tracks, k + 1,
                              Append(matched, << k, unmatched[b] >>),
                              Pop(unmatched, b))

\* the outer loop taken from the latest track back to the first
RECURSIVE MatchDown(_, _, _, _)
MatchDown(tracks, k, matched, unmatched) ==
    IF k < 1 THEN [ matched |-> matched, unmatched |-> unmatched ]
    ELSE IF tracks[k].track_history = <<>>
      THEN MatchDown(tracks, k - 1, matched, unmatched)
    ELSE IF BestMatch(tracks[k], unmatched) = 0
      THEN MatchDown(tracks, k - 1, matched, unmatched)
    ELSE MatchDown(tracks, k - 1,
                   Append(matched,
                          << k, unmatched[BestMatch(tracks[k], unmatched)] >>),
                   Pop(unmatched, BestMatch(tracks[k], unmatched)))

\* _match_detections_to_tracks over reversed(self.tracked_objects.items())
MatchDetectionsToTracks_LatestFirst(tracks, detections) ==
    MatchDown(tracks, Len(tracks), <<>>, detections)

\* _match_detections_to_tracks with the outer loop left at the first track
\* that gets a detection
MatchDetectionsToTracks_OneMatch(tracks, detections) ==
    LET m == MatchFrom(tracks, 1, <<>>, detections)
    IN  IF m.matched = <<>> THEN m
        ELSE [ matched |-> << m.matched[1] >>,
               unmatched |-> SelectSeq(detections,
                                       LAMBDA d : d # m.matched[1][2]) ]

\* _match_detections_to_tracks
MatchDetectionsToTracks(tracks, detections) ==
    MatchFrom(tracks, 1, <<>>, detections)

\* _cleanup_old_tracks that removes nothing
CleanupOldTracks_Never(tracks, current_frame, mmf) == tracks

\* _cleanup_old_tracks with ">=" for ">": a track is removed as soon as the
\* patience is used up
CleanupOldTracks_AtPatience(tracks, current_frame, mmf) ==
    LET Keep(trk) == ~(current_frame - trk.last_seen_frame >= mmf)
    IN  SelectSeq(tracks, Keep)

\* _cleanup_old_tracks
CleanupOldTracks(tracks, current_frame, mmf) ==
    LET Keep(trk) == ~(current_frame - trk.last_seen_frame > mmf)
    IN  SelectSeq(tracks, Keep)

\* --------------------------------------------- suggestions, imagery
\* A suggestion's confidence is in thousandths: the detection's hundredths
\* times 10, times 8 for (confidence * 0.8), times 6 for (confidence * 0.6).

\* _get_similar_classes: similar_classes.get(class_name, [])
GetSimilarClasses(class_name) ==
    CASE class_name = "bicycle" -> << "motorcycle", "electric_scooter" >>
      [] class_name = "motorcycle" -> << "bicycle", "electric_motorcycle" >>
      [] class_name = "car" -> << "truck", "van" >>
      [] class_name = "truck" -> << "car", "bus" >>
      [] class_name = "bus" -> << "truck", "van" >>
      [] OTHER -> << >>

Suggestion(type, confidence) == [ type |-> type, confidence |-> confidence ]

\* "while len(suggestions) < 3: suggestions.append(unknown)"
RECURSIVE PadSuggestions(_, _)
PadSuggestions(suggestions, confidence) ==
    IF Len(suggestions) >= 3 THEN suggestions
    ELSE PadSuggestions(Append(suggestions, Suggestion("unknown", confidence * 6)),
                        confidence)

\* the list built with the alternates at the confidence of the class itself
SuggestionsFrom_AlternatesUnscaled(class_name, confidence, alternatives) ==
    SubSeq(PadSuggestions(
               << Suggestion(class_name, confidence * 10) >>
               \o [ i \in 1..Min2(2, Len(alternatives)) |->
                      Suggestion(alternatives[i], confidence * 10) ],
               confidence),
           1, 3)

\* the suggestions built from a class, a confidence and the alternates:
\* the class itself, alternatives[:2], the padding, and [:3] of it all
SuggestionsFrom(class_name, confidence, alternatives) ==
    SubSeq(PadSuggestions(
               << Suggestion(class_name, confidence * 10) >>
               \o [ i \in 1..Min2(2, Len(alternatives)) |->
                      Suggestion(alternatives[i], confidence * 8) ],
               confidence),
           1, 3)

\* _generate_model_suggestions
GenerateModelSuggestions(detection) ==
    SuggestionsFrom(detection.class_name, detection.confidence,
                    GetSimilarClasses(detection.class_name))

\* generate_model_suggestions of the resume endpoints (main.py):
\* similar_classes.get(class_name, ['car', 'motorcycle'])
ResumeGenerateModelSuggestions(class_name, confidence) ==
    SuggestionsFrom(class_name, confidence,
                    IF GetSimilarClasses(class_name) = << >>
                      THEN << "car", "motorcycle" >>
                      ELSE GetSimilarClasses(class_name))

\* padding_ratio = max(0.2, min(0.5, 5000 / bbox_area)), as a fraction
PaddingRatio(bbox_area) ==
    IF 2 * PaddingArea >= bbox_area THEN << 1, 2 >>
    ELSE IF 5 * PaddingArea <= bbox_area THEN << 1, 5 >>
    ELSE << PaddingArea, bbox_area >>

\* max(0, int(lo - size * padding_ratio))
PaddedLow(lo, size, ratio) ==
    Max2(0, (lo * ratio[2] - size * ratio[1]) \div ratio[2])

\* min(limit, int(lo + size + size * padding_ratio))
PaddedHigh(lo, size, ratio, limit) ==
    Min2(limit, ((lo + size) * ratio[2] + size * ratio[1]) \div ratio[2])

\* the extent of frame[a:b] along an axis of length limit
SliceLen(a, b, limit) == Max2(0, Min2(b, limit) - Min2(a, limit))

\* (h, w) of frame[y1:y2, x1:x2], the padded region
PaddedShape(bbox, ratio, shape) ==
    << SliceLen(PaddedLow(bbox.y, bbox.height, ratio),
                PaddedHigh(bbox.y, bbox.height, ratio, shape[1]), shape[1]),
       SliceLen(PaddedLow(bbox.x, bbox.width, ratio),
                PaddedHigh(bbox.x, bbox.width, ratio, shape[2]), shape[2]) >>

\* (h, w) of the crop: the padded region, or the bare box when that is empty
CropShape(padded, bbox, shape) ==
    IF padded[1] = 0 \/ padded[2] = 0
      THEN << SliceLen(bbox.y, bbox.y + bbox.height, shape[1]),
              SliceLen(bbox.x, bbox.x + bbox.width, shape[2]) >>
      ELSE padded

\* cv2.resize(crop, (new_w, new_h)) raises: the crop is empty or a side of
\* the target rounds to 0
ResizeRaises(crop) ==
    \/ crop[1] = 0
    \/ crop[2] = 0
    \/ crop[1] > crop[2] /\ (crop[2] * TargetSize) \div crop[1] = 0
    \/ crop[1] <= crop[2] /\ (crop[1] * TargetSize) \div crop[2] = 0

\* _create_detection_crop raises (shape is frame.shape: height, width)
CreateDetectionCropRaises(bbox, shape) ==
    \/ bbox.width * bbox.height = 0
    \/ ResizeRaises(CropShape(
            PaddedShape(bbox, PaddingRatio(bbox.width * bbox.height), shape),
            bbox, shape))

\* (new_h, new_w): the longer side of the crop scaled to target_size, the
\* other side in proportion and truncated
NewShape(crop) ==
    IF crop[1] > crop[2]
      THEN << TargetSize, (crop[2] * TargetSize) \div crop[1] >>
      ELSE << (crop[1] * TargetSize) \div crop[2], TargetSize >>

\* "final_crop[y_offset:y_offset + new_h, x_offset:x_offset + new_w] =
\* resized_crop" raises: the slice of the target_size square has another
\* shape than the resized crop
PasteRaises(new) ==
    \/ SliceLen((TargetSize - new[1]) \div 2,
                (TargetSize - new[1]) \div 2 + new[1], TargetSize) # new[1]
    \/ SliceLen((TargetSize - new[2]) \div 2,
                (TargetSize - new[2]) \div 2 + new[2], TargetSize) # new[2]

\* (h, w) of the crop _extract_detection_images encodes for the box,
\* (0, 0) when _create_detection_crop raises and there is no crop
CropImageShape(bbox, shape) ==
    IF \/ CreateDetectionCropRaises(bbox, shape)
       \/ PasteRaises(NewShape(CropShape(
              PaddedShape(bbox, PaddingRatio(bbox.width * bbox.height), shape),
              bbox, shape)))
      THEN << 0, 0 >>
      ELSE << TargetSize, TargetSize >>

\* _extract_detection_images: (full_frame_data, crop_data), ("", "") when
\* an exception was caught
ExtractDetectionImages(detection, shape) ==
    IF CreateDetectionCropRaises(detection.bbox, shape)
      THEN << "", "" >>
      ELSE << "data:image/jpeg;base64,frame", "data:image/jpeg;base64,crop" >>

\* ------------------------------------------- one frame's detections
\* The tracking step works on st = [tracks, uds, next_id, created, shape]:
\* self.tracked_objects in insertion order, the list self.unique_detections
\* refers to, the next uuid, the identities created so far by the
\* invocation, and frame.shape as (height, width).

\* the UniqueDetection built by _create_unique_detection (owner: the number
\* of the invocation whose frame it was cut from)
UniqueDetectionOf(detection, frame, track_id, owner, images) ==
    [ id |-> track_id, frame_number |-> frame, bbox |-> detection.bbox,
      class_name |-> detection.class_name, confidence |-> detection.confidence,
      full_frame_image_data |-> images[1], frame_image_data |-> images[2],
      model_suggestions |-> GenerateModelSuggestions(detection),
      owner |-> owner ]

\* _create_unique_detection that gives up the record when no image could be
\* made of the detection
CreateUniqueDetection_DropsImageless(st, detection, frame, track_id, owner) ==
    IF ExtractDetectionImages(detection, st.shape) = << "", "" >> THEN st
    ELSE [ st EXCEPT !.uds =
             Append(@, UniqueDetectionOf(detection, frame, track_id, owner,
                                         ExtractDetectionImages(detection, st.shape))) ]

\* _create_unique_detection with self.unique_detections.insert(0, ...)
CreateUniqueDetection_Prepends(st, detection, frame, track_id, owner) ==
    [ st EXCEPT !.uds =
        << UniqueDetectionOf(detection, frame, track_id, owner,
                             ExtractDetectionImages(detection, st.shape)) >> \o @ ]

\* _create_unique_detection: self.unique_detections.append(unique_detection)
CreateUniqueDetection(st, detection, frame, track_id, owner) ==
    [ st EXCEPT !.uds =
        Append(@, UniqueDetectionOf(detection, frame, track_id, owner,
                                    ExtractDetectionImages(detection, st.shape))) ]

\* _create_new_track up to self.tracked_objects[track_id] = tracked_obj
RegisterNewTrack(st, detection, frame) ==
    LET track_id == st.next_id
        tracked_obj == TrackedObjectUpdate(
                           NewTrackedObject(track_id, detection.class_name, frame),
                           detection, frame)
    IN  [ st EXCEPT !.tracks = Append(@, tracked_obj),
                    !.next_id = @ + 1,
                    !.created = Append(@, track_id) ]

\* _create_new_track
CreateNewTrack(st, detection, frame, owner) ==
    CreateUniqueDetection(RegisterNewTrack(st, detection, frame),
                          detection, frame, st.next_id, owner)

\* the position of a track that this frame has started and whose box reaches
\* the detection, 0 when there is none
StartedInReach(st, detection, frame) ==
    IF \E k \in 1..Len(st.tracks) :
         st.tracks[k].age = 1 /\ st.tracks[k].last_seen_frame = frame
           /\ Eligible(detection, st.tracks[k])
      THEN CHOOSE k \in 1..Len(st.tracks) :
             /\ st.tracks[k].age = 1 /\ st.tracks[k].last_seen_frame = frame
             /\ Eligible(detection, st.tracks[k])
             /\ \A j \in 1..(k - 1) :
                  ~(st.tracks[j].age = 1 /\ st.tracks[j].last_seen_frame = frame
                      /\ Eligible(detection, st.tracks[j]))
      ELSE 0

\* the loop with every left-over detection matched first against the tracks
\* that the loop has started before it
RECURSIVE CreateNewTracksFrom_JoinsStarted(_, _, _, _, _)
CreateNewTracksFrom_JoinsStarted(st, unmatched, i, frame, owner) ==
    IF i > Len(unmatched) THEN st
    ELSE IF StartedInReach(st, unmatched[i], frame) # 0
      THEN CreateNewTracksFrom_JoinsStarted(
               [ st EXCEPT !.tracks[StartedInReach(st, unmatched[i], frame)] =
                   TrackedObjectUpdate(@, unmatched[i], frame) ],
               unmatched, i + 1, frame, owner)
      ELSE CreateNewTracksFrom_JoinsStarted(
               CreateNewTrack(st, unmatched[i], frame, owner),
               unmatched, i + 1, frame, owner)

\* the loop "for detection in unmatched_detections" of
\* _process_frame_detections, from detection i on
RECURSIVE CreateNewTracksFrom(_, _, _, _, _)
CreateNewTracksFrom(st, unmatched, i, frame, owner) ==
    IF i > Len(unmatched) THEN st
    ELSE CreateNewTracksFrom(CreateNewTrack(st, unmatched[i], frame, owner),
                             unmatched, i + 1, frame, owner)

\* the matched detection of the track at position k, <<>> when it has none
MatchedAt(matched, k) ==
    LET hits == { i \in 1..Len(matched) : matched[i][1] = k }
    IN  IF hits = {} THEN <<>> ELSE << matched[CHOOSE i \in hits : TRUE][2] >>

\* "for track_id, detection in matched_objects.items()" with a record
\* appended for every update as well
UpdateExistingTracks_Emits(st, matched, frame, owner) ==
    LET upd == [ st EXCEPT !.tracks =
                   [ k \in 1..Len(st.tracks) |->
                       IF MatchedAt(matched, k) = <<>> THEN st.tracks[k]
                       ELSE TrackedObjectUpdate(st.tracks[k],
                                                MatchedAt(matched, k)[1], frame) ] ]
    IN  IF matched = <<>> THEN upd
        ELSE CreateUniqueDetection(upd, matched[1][2], frame,
                                   st.tracks[matched[1][1]].id, owner)

\* the matched detection of the track with identity id, <<>> when the track
\* is unknown or has none
MatchedOf(st, matched, id) ==
    IF \E k \in 1..Len(st.tracks) : st.tracks[k].id = id
      THEN MatchedAt(matched, CHOOSE k \in 1..Len(st.tracks) : st.tracks[k].id = id)
      ELSE <<>>

\* the update loop with the record of an updated track rewritten to the
\* box and confidence of the detection that updates it
UpdateExistingTracks_Refreshes(st, matched, frame, owner) ==
    [ st EXCEPT
        !.tracks =
          [ k \in 1..Len(st.tracks) |->
              IF MatchedAt(matched, k) = <<>> THEN st.tracks[k]
              ELSE TrackedObjectUpdate(st.tracks[k], MatchedAt(matched, k)[1], frame) ],
        !.uds =
          [ i \in 1..Len(st.uds) |->
              IF MatchedOf(st, matched, st.uds[i].id) = <<>> THEN st.uds[i]
              ELSE [ st.uds[i] EXCEPT
                       !.bbox = MatchedOf(st, matched, st.uds[i].id)[1].bbox,
                       !.confidence =
                         MatchedOf(st, matched, st.uds[i].id)[1].confidence ] ] ]

\* "for track_id, detection in matched_objects.items():
\*      self.tracked_objects[track_id].update(detection, frame_number)"
UpdateExistingTracks(st, matched, frame, owner) ==
    [ st EXCEPT !.tracks =
        [ k \in 1..Len(st.tracks) |->
            IF MatchedAt(matched, k) = <<>> THEN st.tracks[k]
            ELSE TrackedObjectUpdate(st.tracks[k], MatchedAt(matched, k)[1], frame) ] ]

\* _process_frame_detections that returns at once on a frame without
\* detections, so that no track expires on such a frame
ProcessFrameDetections_SkipsEmpty(st, detections, frame, mmf, owner) ==
    IF detections = <<>> THEN st
    ELSE LET m == MatchDetectionsToTracks(st.tracks, detections)
             st1 == UpdateExistingTracks(st, m.matched, frame, owner)
             st2 == CreateNewTracksFrom(st1, m.unmatched, 1, frame, owner)
         IN  [ st2 EXCEPT !.tracks = CleanupOldTracks(@, frame, mmf) ]

\* _process_frame_detections
ProcessFrameDetections(st, detections, frame, mmf, owner) ==
    LET m == MatchDetectionsToTracks(st.tracks, detections)
        st1 == UpdateExistingTracks(st, m.matched, frame, owner)
        st2 == CreateNewTracksFrom(st1, m.unmatched, 1, frame, owner)
    IN  [ st2 EXCEPT !.tracks = CleanupOldTracks(@, frame, mmf) ]


\* ------------------------------------------------------------ state
Terminal == { "done", "failed", "cancelled" }
Free == Terminal \cup { "idle" }

\* no detection has been handed to the suggestion builders
NoProbe == [class_name |-> "", confidence |-> 0, bbox |-> BoxA]
NoAnswer == [ engine |-> <<>>, resume |-> <<>>, crop |-> <<>> ]
\* no broadcast has begun
NotSending == [ pc |-> "idle", i |-> 0, connection |-> 0, disconnected |-> <<>> ]

\* the service instance after construction, nothing running
Constructed ==
    /\ is_loaded = FALSE
    /\ max_missing_frames \in 0..MaxMissing
    /\ tracked_objects = <<>>
    /\ heap = << <<>> >>
    /\ unique_detections = 1
    /\ frame_skip = 1
    /\ progress_callback = FALSE
    /\ next_id = 1
    /\ running = 0
    /\ calls = 0
    /\ returned = {}
    /\ inv = [t \in Slots |-> 0]
    /\ pc = [t \in Slots |-> "idle"]
    /\ err = [t \in Slots |-> "none"]
    /\ cap = [t \in Slots |-> "none"]
    /\ video = [t \in Slots |-> NoVideo]
    /\ skip_arg = [t \in Slots |-> 1]
    /\ frame_number = [t \in Slots |-> 0]
    /\ processed_frames = [t \in Slots |-> 0]
    /\ events = [t \in Slots |-> <<>>]
    /\ result = [t \in Slots |-> 0]
    /\ detlog = [t \in Slots |-> <<>>]
    /\ created = [t \in Slots |-> <<>>]
    /\ active_connections = <<>>
    /\ sockets = [c \in Connections |-> "new"]
    /\ sending = NotSending
    /\ received = [c \in Connections |-> 0]
    /\ stayed = {}

Init ==
    /\ Constructed
    /\ mode \in { "one", "calls", "overlap" }
    /\ probe = NoProbe
    /\ answer = NoAnswer

\* the files a caller may pass and the detector's answers on their frames
VideosFor(m) ==
    IF m = "one" THEN OddVideos \cup DeepVideos \cup PlainVideos(MaxFrames)
    ELSE OddVideos \cup PlainVideos(ShortFrames)

\* what detect_objects may return on frame f of video v
Answers(m, v, f) ==
    CASE v.script = "none" -> { <<>> }
      [] v.script = "steady" -> IF f % 2 = 0 THEN { <<DetA>> } ELSE { <<DetC>> }
      [] v.script = "apart" -> IF f % 2 = 0 THEN { <<DetA>> } ELSE { <<DetB>> }
      [] v.script = "mixed" -> IF f % 2 = 0 THEN { <<DetC>> } ELSE { <<DetD>> }
      [] v.script = "between" ->
           IF f = 0 THEN { <<DetA, DetE>> }
           ELSE IF f = 1 THEN { <<DetF, DetG>> } ELSE { <<>> }
      [] v.script = "edge" ->
           CASE f = 0 -> { <<DetA>> }
             [] f = 1 -> { <<DetH>> }
             [] f = 2 -> { <<DetI>> }
             [] f = 3 -> { <<DetJ>> }
             [] OTHER -> { <<>> }
      [] OTHER -> IF m = "one" THEN DetLists ELSE ShortDetLists

\* ---------------------------------------------------------- actions
\* YOLOv8mService.load_model succeeded
LoadModel ==
    /\ ~is_loaded
    /\ running = 0
    /\ is_loaded' = TRUE
    /\ UNCHANGED << setup, engine, history, progress_callback, running, calls,
                    returned, pc, err, cap, video, skip_arg, frame_number,
                    processed_frames, events, result >>

\* set_progress_callback, as the /video/process handler calls it right
\* before process_video
SetProgressCallback ==
    /\ ~progress_callback
    /\ running = 0
    /\ mode = "overlap" \/ \A t \in Slots : pc[t] \in Free
    /\ progress_callback' = TRUE
    /\ UNCHANGED << setup, engine, history, is_loaded, running, calls,
                    returned, pc, err, cap, video, skip_arg, frame_number,
                    processed_frames, events, result >>

\* "Reset state" of process_video that keeps the tracks
ResetState_KeepsTracks(h, ref, fs) ==
    [ tracks |-> tracked_objects, heap |-> Append(h, <<>>), ref |-> Len(h) + 1,
      skip |-> fs ]

\* "Reset state" of process_video: a fresh dict, a fresh list, frame_skip
ResetState(h, ref, fs) ==
    [ tracks |-> <<>>, heap |-> Append(h, <<>>), ref |-> Len(h) + 1,
      skip |-> fs ]

\* an invocation may begin in slot t: the event loop is free, the slot is
\* the first free one, and no other invocation is in flight unless requests
\* overlap
MayStart(t) ==
    /\ pc[t] \in Free
    /\ running = 0
    /\ calls < (IF mode = "one" THEN 1 ELSE MaxCalls)
    /\ \A u \in Slots : u < t => pc[u] \notin Free
    /\ mode = "overlap" \/ t = 1

\* the arguments and locals of a new invocation in slot t
Enter(t, v, fs) ==
    /\ calls' = calls + 1
    /\ inv' = [inv EXCEPT ![t] = calls + 1]
    /\ video' = [video EXCEPT ![t] = v]
    /\ skip_arg' = [skip_arg EXCEPT ![t] = fs]
    /\ frame_number' = [frame_number EXCEPT ![t] = 0]
    /\ processed_frames' = [processed_frames EXCEPT ![t] = 0]
    /\ events' = [events EXCEPT ![t] = <<>>]
    /\ result' = [result EXCEPT ![t] = 0]
    /\ detlog' = [detlog EXCEPT ![t] = <<>>]
    /\ created' = [created EXCEPT ![t] = <<>>]

\* process_video with the detector not loaded: RuntimeError
StartNotLoaded(t, v, fs) ==
    /\ MayStart(t)
    /\ v \in VideosFor(mode)
    /\ ~is_loaded
    /\ Enter(t, v, fs)
    /\ pc' = [pc EXCEPT ![t] = "failed"]
    /\ err' = [err EXCEPT ![t] = "not_loaded"]
    /\ cap' = [cap EXCEPT ![t] = "none"]
    /\ UNCHANGED << setup, engine, is_loaded, progress_callback, running,
                    returned >>

\* process_video with a source cv2 cannot open: ValueError, after the reset
StartCannotOpen(t, v, fs) ==
    /\ MayStart(t)
    /\ v \in VideosFor(mode)
    /\ is_loaded
    /\ ~v.openable
    /\ Enter(t, v, fs)
    /\ LET r == ResetState(heap, unique_detections, fs)
       IN  /\ tracked_objects' = r.tracks
           /\ heap' = r.heap
           /\ unique_detections' = r.ref
           /\ frame_skip' = r.skip
    /\ cap' = [cap EXCEPT ![t] = "released"]
    /\ pc' = [pc EXCEPT ![t] = "failed"]
    /\ err' = [err EXCEPT ![t] = "cannot_open"]
    /\ UNCHANGED << setup, is_loaded, progress_callback, next_id, running,
                    returned >>

\* process_video up to the head of the frame loop
StartOpened(t, v, fs) ==
    /\ MayStart(t)
    /\ v \in VideosFor(mode)
    /\ is_loaded
    /\ v.openable
    /\ Enter(t, v, fs)
    /\ LET r == ResetState(heap, unique_detections, fs)
       IN  /\ tracked_objects' = r.tracks
           /\ heap' = r.heap
           /\ unique_detections' = r.ref
           /\ frame_skip' = r.skip
    /\ cap' = [cap EXCEPT ![t] = "open"]
    /\ pc' = [pc EXCEPT ![t] = "read"]
    /\ err' = [err EXCEPT ![t] = "none"]
    /\ running' = t
    /\ UNCHANGED << setup, is_loaded, progress_callback, next_id, returned >>

\* an "except" that swallows the detector's error: the frame is given up
\* and the loop goes on
Fail_Swallows(t, why) ==
    IF why = "detector"
      THEN /\ pc' = [pc EXCEPT ![t] = "read"]
           /\ err' = [err EXCEPT ![t] = why]
           /\ cap' = cap
           /\ running' = running
      ELSE /\ pc' = [pc EXCEPT ![t] = "failed"]
           /\ err' = [err EXCEPT ![t] = why]
           /\ cap' = [cap EXCEPT ![t] = "released"]
           /\ running' = 0

\* except Exception: cap.release(); raise
Fail(t, why) ==
    /\ pc' = [pc EXCEPT ![t] = "failed"]
    /\ err' = [err EXCEPT ![t] = why]
    /\ cap' = [cap EXCEPT ![t] = "released"]
    /\ running' = 0

\* _update_progress that reports the share of frames still to come
ProcessingProgress_Remaining(current_frame, total_frames) ==
    [ current_frame |-> current_frame, total_frames |-> total_frames,
      percentage |-> << 100 * (total_frames - current_frame), total_frames >> ]

\* _update_progress: the snapshot handed to the callback.  percentage is
\* (current_frame / total_frames) * 100, kept as the fraction
\* 100 * current_frame / total_frames
ProcessingProgress(current_frame, total_frames) ==
    [ current_frame |-> current_frame, total_frames |-> total_frames,
      percentage |-> << 100 * current_frame, total_frames >> ]

\* _update_progress divides by total_frames once a callback is installed
ProgressDivides(t) == progress_callback /\ video[t].total = 0

\* the skip test on a frame counter that starts at 1
Skipped_OneBased(number, skip) == (number + 1) % skip # 0

\* "if frame_number % self.frame_skip != 0"
Skipped(number, skip) == number % skip # 0

\* cap.read() returns a frame that frame_skip discards
ReadSkipped(t) ==
    /\ pc[t] = "read" /\ running = t
    /\ frame_number[t] < video[t].nframes
    /\ Skipped(frame_number[t], frame_skip)
    /\ frame_number' = [frame_number EXCEPT ![t] = @ + 1]
    /\ UNCHANGED << setup, engine, history, is_loaded, progress_callback,
                    running, calls, returned, pc, err, cap, video, skip_arg,
                    processed_frames, events, result >>

\* cap.read() returns a retained frame; no callback: on to the detector
ReadRetainedNoSink(t) ==
    /\ pc[t] = "read" /\ running = t
    /\ frame_number[t] < video[t].nframes
    /\ ~Skipped(frame_number[t], frame_skip)
    /\ ~progress_callback
    /\ pc' = [pc EXCEPT ![t] = "detect"]
    /\ UNCHANGED << setup, engine, history, is_loaded, progress_callback,
                    running, calls, returned, err, cap, video, skip_arg,
                    frame_number, processed_frames, events, result >>

\* cap.read() returns a retained frame; the snapshot is handed to the
\* callback and the invocation is suspended in it
ReadRetainedProgress(t) ==
    /\ pc[t] = "read" /\ running = t
    /\ frame_number[t] < video[t].nframes
    /\ ~Skipped(frame_number[t], frame_skip)
    /\ progress_callback
    /\ ~ProgressDivides(t)
    /\ events' = [events EXCEPT ![t] =
                    Append(@, ProcessingProgress(frame_number[t], video[t].total))]
    /\ pc' = [pc EXCEPT ![t] = "await_progress"]
    /\ running' = 0
    /\ UNCHANGED << setup, engine, history, is_loaded, progress_callback,
                    calls, returned, err, cap, video, skip_arg, frame_number,
                    processed_frames, result >>

\* cap.read() returns a retained frame; _update_progress raises
\* ZeroDivisionError
ReadRetainedDivides(t) ==
    /\ pc[t] = "read" /\ running = t
    /\ frame_number[t] < video[t].nframes
    /\ ~Skipped(frame_number[t], frame_skip)
    /\ ProgressDivides(t)
    /\ Fail(t, "zero_division")
    /\ UNCHANGED << setup, engine, history, is_loaded, progress_callback,
                    calls, returned, video, skip_arg, frame_number,
                    processed_frames, events, result >>

\* the callback returns during streaming
ProgressDelivered(t) ==
    /\ pc[t] = "await_progress" /\ running = 0
    /\ pc' = [pc EXCEPT ![t] = "detect"]
    /\ running' = t
    /\ UNCHANGED << setup, engine, history, is_loaded, progress_callback,
                    calls, returned, err, cap, video, skip_arg, frame_number,
                    processed_frames, events, result >>

\* the callback raises an Exception
ProgressRaises(t) ==
    /\ pc[t] \in {"await_progress", "await_final"} /\ running = 0
    /\ Fail(t, "sink")
    /\ UNCHANGED << setup, engine, history, is_loaded, progress_callback,
                    calls, returned, video, skip_arg, frame_number,
                    processed_frames, events, result >>

\* the task is cancelled while suspended: asyncio.CancelledError is a
\* BaseException, which "except Exception" does not catch
Cancelled(t) ==
    /\ pc[t] \in {"await_progress", "await_final", "sleep"} /\ running = 0
    /\ pc' = [pc EXCEPT ![t] = "cancelled"]
    /\ UNCHANGED << setup, engine, history, is_loaded, progress_callback,
                    running, calls, returned, err, cap, video, skip_arg,
                    frame_number, processed_frames, events, result >>

\* the engine state _process_frame_detections works on
EngineState(t) ==
    [ tracks |-> tracked_objects, uds |-> heap[unique_detections],
      next_id |-> next_id, created |-> created[t],
      shape |-> << video[t].height, video[t].width >> ]

\* _frame_to_timestamp divides by fps when a new track is created
TimestampDivides(t, detections) ==
    /\ video[t].fps = 0
    /\ MatchDetectionsToTracks(tracked_objects, detections).unmatched # <<>>

\* the yield test one frame late: after every 11th retained frame
YieldDue_Eleventh(processed) == processed % (YieldEvery + 1) = 0

\* "if processed_frames % 10 == 0"
YieldDue(processed) == processed % YieldEvery = 0

\* detect_objects and _process_frame_detections on a retained frame
Detect(t, detections) ==
    /\ pc[t] = "detect" /\ running = t
    /\ detections \in Answers(mode, video[t], frame_number[t])
    /\ ~TimestampDivides(t, detections)
    /\ LET st == ProcessFrameDetections(EngineState(t), detections,
                                        frame_number[t], max_missing_frames,
                                        inv[t])
       IN  /\ tracked_objects' = st.tracks
           /\ heap' = [heap EXCEPT ![unique_detections] = st.uds]
           /\ next_id' = st.next_id
           /\ created' = [created EXCEPT ![t] = st.created]
    /\ detlog' = [detlog EXCEPT ![t] =
                    Append(@, [frame |-> frame_number[t], dets |-> detections])]
    /\ processed_frames' = [processed_frames EXCEPT ![t] = @ + 1]
    /\ frame_number' = [frame_number EXCEPT ![t] = @ + 1]
    /\ IF YieldDue(processed_frames[t] + 1)
         THEN pc' = [pc EXCEPT ![t] = "sleep"] /\ running' = 0
         ELSE pc' = [pc EXCEPT ![t] = "read"] /\ running' = running
    /\ UNCHANGED << setup, is_loaded, unique_detections, frame_skip,
                    progress_callback, calls, returned, inv, err, cap, video,
                    skip_arg, events, result >>

\* detect_objects raises
DetectRaises(t) ==
    /\ pc[t] = "detect" /\ running = t
    /\ Fail(t, "detector")
    /\ UNCHANGED << setup, engine, history, is_loaded, progress_callback,
                    calls, returned, video, skip_arg, frame_number,
                    processed_frames, events, result >>

\* _process_frame_detections raises in _frame_to_timestamp (fps = 0): the
\* matched tracks are updated and the first new track is registered, its
\* record is not appended
DetectTimestampRaises(t, detections) ==
    /\ pc[t] = "detect" /\ running = t
    /\ detections \in Answers(mode, video[t], frame_number[t])
    /\ TimestampDivides(t, detections)
    /\ LET m == MatchDetectionsToTracks(tracked_objects, detections)
           st1 == UpdateExistingTracks(EngineState(t), m.matched,
                                       frame_number[t], inv[t])
           st2 == RegisterNewTrack(st1, m.unmatched[1], frame_number[t])
       IN  /\ tracked_objects' = st2.tracks
           /\ next_id' = st2.next_id
           /\ created' = [created EXCEPT ![t] = st2.created]
    /\ Fail(t, "timestamp")
    /\ UNCHANGED << setup, is_loaded, unique_detections, frame_skip,
                    progress_callback, heap, calls, returned, inv, video,
                    skip_arg, frame_number, processed_frames, events, result,
                    detlog >>

\* asyncio.sleep(0.001) returns
SleepDone(t) ==
    /\ pc[t] = "sleep" /\ running = 0
    /\ pc' = [pc EXCEPT ![t] = "read"]
    /\ running' = t
    /\ UNCHANGED << setup, engine, history, is_loaded, progress_callback,
                    calls, returned, err, cap, video, skip_arg, frame_number,
                    processed_frames, events, result >>

\* return self.unique_detections
Return(t) ==
    /\ result' = [result EXCEPT ![t] = unique_detections]
    /\ returned' = returned \cup { unique_detections }
    /\ pc' = [pc EXCEPT ![t] = "done"]

\* cap.read() fails: the loop ends, cap.release(), no callback: return
EndNoSink(t) ==
    /\ pc[t] = "read" /\ running = t
    /\ frame_number[t] >= video[t].nframes
    /\ ~progress_callback
    /\ cap' = [cap EXCEPT ![t] = "released"]
    /\ Return(t)
    /\ running' = 0
    /\ UNCHANGED << setup, engine, history, is_loaded, progress_callback,
                    calls, err, video, skip_arg, frame_number,
                    processed_frames, events >>

\* the end of the loop without the final _update_progress: cap.release(),
\* return
EndProgress_NoFinal(t) ==
    /\ pc[t] = "read" /\ running = t
    /\ frame_number[t] >= video[t].nframes
    /\ progress_callback
    /\ ~ProgressDivides(t)
    /\ cap' = [cap EXCEPT ![t] = "released"]
    /\ Return(t)
    /\ running' = 0
    /\ UNCHANGED << setup, engine, history, is_loaded, progress_callback,
                    calls, err, video, skip_arg, frame_number,
                    processed_frames, events >>

\* cap.read() fails: the loop ends, cap.release(), the final snapshot is
\* handed to the callback
EndProgress(t) ==
    /\ pc[t] = "read" /\ running = t
    /\ frame_number[t] >= video[t].nframes
    /\ progress_callback
    /\ ~ProgressDivides(t)
    /\ cap' = [cap EXCEPT ![t] = "released"]
    /\ events' = [events EXCEPT ![t] =
                    Append(@, ProcessingProgress(video[t].total, video[t].total))]
    /\ pc' = [pc EXCEPT ![t] = "await_final"]
    /\ running' = 0
    /\ UNCHANGED << setup, engine, history, is_loaded, progress_callback,
                    calls, returned, err, video, skip_arg, frame_number,
                    processed_frames, result >>

\* cap.read() fails: the loop ends, cap.release(), the final
\* _update_progress raises ZeroDivisionError
EndDivides(t) ==
    /\ pc[t] = "read" /\ running = t
    /\ frame_number[t] >= video[t].nframes
    /\ ProgressDivides(t)
    /\ Fail(t, "zero_division")
    /\ UNCHANGED << setup, engine, history, is_loaded, progress_callback,
                    calls, returned, video, skip_arg, frame_number,
                    processed_frames, events, result >>

\* the callback returns after the final snapshot: return
FinalDelivered(t) ==
    /\ pc[t] = "await_final" /\ running = 0
    /\ Return(t)
    /\ UNCHANGED << setup, engine, history, is_loaded, progress_callback,
                    running, calls, err, cap, video, skip_arg, frame_number,
                    processed_frames, events >>

Next ==
    \/ LoadModel
    \/ SetProgressCallback
    \/ \E t \in Slots, fs \in 1..MaxSkip,
          v \in OddVideos \cup DeepVideos \cup PlainVideos(MaxFrames) :
         \/ StartNotLoaded(t, v, fs)
         \/ StartCannotOpen(t, v, fs)
         \/ StartOpened(t, v, fs)
    \/ \E t \in Slots :
         \/ ReadSkipped(t)
         \/ ReadRetainedNoSink(t)
         \/ ReadRetainedProgress(t)
         \/ ReadRetainedDivides(t)
         \/ ProgressDelivered(t)
         \/ ProgressRaises(t)
         \/ Cancelled(t)
         \/ DetectRaises(t)
         \/ SleepDone(t)
         \/ EndNoSink(t)
         \/ EndProgress(t)
         \/ EndDivides(t)
         \/ FinalDelivered(t)
         \/ \E detections \in AllDetLists :
              \/ Detect(t, detections)
              \/ DetectTimestampRaises(t, detections)

InitOne == Init /\ mode = "one"
InitCalls == Init /\ mode = "calls"
InitOverlap == Init /\ mode = "overlap"

\* one invocation on a fresh service instance
Spec == InitOne /\ [][Next]_vars

\* invocations one after the other on the shared service instance
SpecCalls == InitCalls /\ [][Next]_vars

\* invocations that may overlap on the shared service instance
SpecOverlap == InitOverlap /\ [][Next]_vars

\* ------------------------------------- the suggestion builders alone
\* class names: the keys of the similarity table, classes that are only
\* alternates in it, and one that is not in it at all
ProbeClasses == { "bicycle", "motorcycle", "car", "truck", "bus",
                 "electric_scooter", "van", "person" }

\* confidences in hundredths, from 0 to 1 in steps of ConfidenceStep
ConfidenceStep == 5
ConfidenceSteps == 20
Confidences == { ConfidenceStep * n : n \in 0..ConfidenceSteps }

Probes ==
    { [class_name |-> c, confidence |-> p, bbox |-> BoxA] :
        c \in ProbeClasses, p \in Confidences }

InitSuggest ==
    /\ Constructed
    /\ mode = "suggest"
    /\ probe \in Probes
    /\ answer = NoAnswer

\* self._generate_model_suggestions(detection)
Suggest ==
    /\ mode = "suggest"
    /\ answer.engine = <<>>
    /\ answer' = [answer EXCEPT !.engine = GenerateModelSuggestions(probe)]
    /\ UNCHANGED << max_missing_frames, mode, probe, manager, engine, history,
                    is_loaded, progress_callback, running, calls, returned,
                    pc, err, cap, video, skip_arg, frame_number,
                    processed_frames, events, result >>

\* generate_model_suggestions(class_name, confidence) of the resume
\* endpoints
ResumeSuggest ==
    /\ mode = "suggest"
    /\ answer.resume = <<>>
    /\ answer' = [answer EXCEPT !.resume =
                    ResumeGenerateModelSuggestions(probe.class_name,
                                                   probe.confidence)]
    /\ UNCHANGED << max_missing_frames, mode, probe, manager, engine, history,
                    is_loaded, progress_callback, running, calls, returned,
                    pc, err, cap, video, skip_arg, frame_number,
                    processed_frames, events, result >>

NextSuggest == Suggest \/ ResumeSuggest

\* the two suggestion builders applied to one detection
SpecSuggest == InitSuggest /\ [][NextSuggest]_vars

\* --------------------------------------------- the connection manager
\* self.active_connections.remove(websocket) when it is in the list
Remove(list, websocket) == SelectSeq(list, LAMBDA c : c # websocket)

\* "for connection in disconnected: self.disconnect(connection)"
RECURSIVE RemoveAll(_, _)
RemoveAll(list, disconnected) ==
    IF disconnected = <<>> THEN list
    ELSE RemoveAll(Remove(list, disconnected[1]), Tail(disconnected))

InitBroadcast ==
    /\ Constructed
    /\ mode = "broadcast"
    /\ probe = NoProbe
    /\ answer = NoAnswer

\* websocket_endpoint up to its first receive_text: manager.connect
Connect(websocket) ==
    /\ mode = "broadcast"
    /\ sockets[websocket] = "new"
    /\ sockets' = [sockets EXCEPT ![websocket] = "open"]
    /\ active_connections' = Append(active_connections, websocket)
    /\ UNCHANGED << max_missing_frames, mode, probe, answer, sending,
                    received, stayed, engine, history, is_loaded,
                    progress_callback, running, calls, returned, pc, err,
                    cap, video, skip_arg, frame_number, processed_frames,
                    events, result >>

\* receive_text raises in websocket_endpoint: manager.disconnect
Disconnect(websocket) ==
    /\ mode = "broadcast"
    /\ sockets[websocket] = "open"
    /\ sockets' = [sockets EXCEPT ![websocket] = "closed"]
    /\ active_connections' = Remove(active_connections, websocket)
    /\ stayed' = stayed \ { websocket }
    /\ UNCHANGED << max_missing_frames, mode, probe, answer, sending,
                    received, engine, history, is_loaded,
                    progress_callback, running, calls, returned, pc, err,
                    cap, video, skip_arg, frame_number, processed_frames,
                    events, result >>

\* the loop "for i, connection in enumerate(self.active_connections)" of
\* broadcast asks its list iterator, which has handed out snd.i elements,
\* for the next one: the broadcast is suspended in the send_text to the
\* element at that index of the list as it is now or, when the list has
\* none, removes the connections in "disconnected" and returns
NextConnection(snd) ==
    IF snd.i < Len(active_connections)
      THEN /\ sending' = [snd EXCEPT !.pc = "send", !.i = @ + 1,
                                     !.connection = active_connections[snd.i + 1]]
           /\ active_connections' = active_connections
      ELSE /\ sending' = [snd EXCEPT !.pc = "done", !.connection = 0]
           /\ active_connections' = RemoveAll(active_connections, snd.disconnected)

\* manager.broadcast(message) is called
Broadcast ==
    /\ mode = "broadcast"
    /\ sending.pc = "idle"
    /\ stayed' = { active_connections[n] : n \in 1..Len(active_connections) }
    /\ IF active_connections = <<>>
         THEN sending' = [sending EXCEPT !.pc = "done"]
                /\ active_connections' = active_connections
         ELSE NextConnection(sending)
    /\ UNCHANGED << max_missing_frames, mode, probe, answer, sockets,
                    received, engine, history, is_loaded,
                    progress_callback, running, calls, returned, pc, err,
                    cap, video, skip_arg, frame_number, processed_frames,
                    events, result >>

\* await connection.send_text(message_json) returns
SendText ==
    /\ mode = "broadcast"
    /\ sending.pc = "send"
    /\ received' = [received EXCEPT ![sending.connection] = @ + 1]
    /\ NextConnection(sending)
    /\ UNCHANGED << max_missing_frames, mode, probe, answer, sockets, stayed,
                    engine, history, is_loaded,
                    progress_callback, running, calls, returned, pc, err,
                    cap, video, skip_arg, frame_number, processed_frames,
                    events, result >>

\* await connection.send_text(message_json) raises
SendTextRaises ==
    /\ mode = "broadcast"
    /\ sending.pc = "send"
    /\ NextConnection([sending EXCEPT
                         !.disconnected = Append(@, sending.connection)])
    /\ UNCHANGED << max_missing_frames, mode, probe, answer, sockets, stayed,
                    received, engine, history, is_loaded,
                    progress_callback, running, calls, returned, pc, err,
                    cap, video, skip_arg, frame_number, processed_frames,
                    events, result >>

NextBroadcast ==
    \/ \E websocket \in Connections : Connect(websocket)
    \/ \E websocket \in Connections : Disconnect(websocket)
    \/ Broadcast
    \/ SendText
    \/ SendTextRaises

\* one broadcast while websockets connect and disconnect
SpecBroadcast == InitBroadcast /\ [][NextBroadcast]_vars

\* ------------------------------------------- the crop of a detection
\* boxes of at least one pixel that lie inside the frame: small and large,
\* square, flat and thin, in the middle and at the borders
ProbeBoxes ==
    { b \in [ x : { 0, 100, 590, 639 }, y : { 0, 100, 430, 479 },
              width : { 1, 2, 50, 300, 640 }, height : { 1, 2, 50, 300, 480 } ] :
        b.x + b.width <= FrameWidth /\ b.y + b.height <= FrameHeight }

InitCrop ==
    /\ Constructed
    /\ mode = "crop"
    /\ probe \in { [class_name |-> "bicycle", confidence |-> 85, bbox |-> b] :
                     b \in ProbeBoxes }
    /\ answer = NoAnswer

\* self._create_detection_crop(frame, detection, target_size=224) as
\* _extract_detection_images calls it
Crop ==
    /\ mode = "crop"
    /\ answer.crop = <<>>
    /\ answer' = [answer EXCEPT !.crop =
                    CropImageShape(probe.bbox, << FrameHeight, FrameWidth >>)]
    /\ UNCHANGED << max_missing_frames, mode, probe, manager, engine, history,
                    is_loaded, progress_callback, running, calls, returned,
                    pc, err, cap, video, skip_arg, frame_number,
                    processed_frames, events, result >>

NextCrop == Crop

\* the crop of one detection
SpecCrop == InitCrop /\ [][NextCrop]_vars

\* ------------------------------------------------------- properties
\* the list self.unique_detections refers to
CurrentList == heap[unique_detections]

\* slot t holds an invocation that has come through every frame it was given
\* so far: it is in its loop, suspended, or has returned
Healthy(t) == pc[t] \in { "read", "await_progress", "detect", "sleep",
                          "await_final", "done" }

Distinct(s) == \A i, j \in 1..Len(s) : i # j => s[i] # s[j]

Range(s) == { s[i] : i \in 1..Len(s) }

\* C1: within one invocation, after any sequence of processed frames, the
\* result list holds exactly one record per track ever created by the
\* invocation, in creation order, with the track's id, and the ids are
\* pairwise distinct; so a detection matched to an existing track appends
\* no record.
C1_OneRecordPerTrack ==
    \A t \in Slots :
      Healthy(t) =>
        /\ Len(CurrentList) = Len(created[t])
        /\ \A i \in 1..Len(created[t]) : CurrentList[i].id = created[t][i]
        /\ Distinct(created[t])

\* an invocation has returned two records and one of its tracks was matched
\* again after its creation
C1_Witness ==
    \E t \in Slots :
      /\ pc[t] = "done"
      /\ Len(created[t]) = 2
      /\ Len(heap[result[t]]) = 2
      /\ \E k \in 1..Len(tracked_objects) : tracked_objects[k].age >= 2

\* C2: when two invocations overlap on the shared service instance, each
\* returns only records cut from its own video's frames, and while one of
\* them runs the stored frame_skip is the one it was called with and every
\* track in the registry is one it created itself.
C2_OverlappingInvocationsIsolated ==
    \A t \in Slots :
      /\ pc[t] = "done" =>
           \A i \in 1..Len(heap[result[t]]) : heap[result[t]][i].owner = inv[t]
      /\ running = t /\ pc[t] \in { "read", "detect" } =>
           /\ frame_skip = skip_arg[t]
           /\ \A k \in 1..Len(tracked_objects) :
                tracked_objects[k].id \in Range(created[t])

\* the frames of the log between entries i and j carry no detection
QuietBetween(log, i, j) == \A k \in (i + 1)..(j - 1) : log[k].dets = <<>>

\* the records cut from frame f
RecordsOfFrame(list, f) == { i \in 1..Len(list) : list[i].frame_number = f }

\* entry j of the log is a reappearance after entry i: detections in both,
\* none between, and more than max_missing_frames frames missed
Reappears(log, i, j) ==
    /\ i < j
    /\ log[i].dets # <<>>
    /\ log[j].dets # <<>>
    /\ QuietBetween(log, i, j)
    /\ log[j].frame - log[i].frame - 1 > max_missing_frames

\* the log is one detection d, then frames without detections, then d again
OnceAndAgain(log) ==
    /\ Len(log) >= 2
    /\ Len(log[1].dets) = 1
    /\ Last(log).dets = log[1].dets
    /\ Reappears(log, 1, Len(log))

\* C3: with frame_skip = 1, when detections are followed by more than
\* max_missing_frames frames without any detection, every detection of the
\* next frame that has some starts a record of its own with that frame's
\* number; a log of one detection, the gap, and the identical detection
\* again yields exactly 2 records with different ids.
C3_ReappearanceAfterGapIsNewRecord ==
    \A t \in Slots :
      Healthy(t) /\ skip_arg[t] = 1 =>
        /\ \A i, j \in 1..Len(detlog[t]) :
             Reappears(detlog[t], i, j) =>
               Cardinality(RecordsOfFrame(CurrentList, detlog[t][j].frame))
                 = Len(detlog[t][j].dets)
        /\ OnceAndAgain(detlog[t]) =>
             /\ Len(CurrentList) = 2
             /\ CurrentList[2].frame_number = Last(detlog[t]).frame
             /\ CurrentList[1].id # CurrentList[2].id

\* an invocation has returned two records for one box seen, lost for longer
\* than the patience window, and seen again
C3_Witness ==
    \E t \in Slots :
      /\ pc[t] = "done"
      /\ skip_arg[t] = 1
      /\ OnceAndAgain(detlog[t])
      /\ Len(heap[result[t]]) = 2
      /\ heap[result[t]][1].bbox = heap[result[t]][2].bbox

\* the step updates a track that was last seen more than gap frames before
\* the frame of the update (an updated track is kept by the cleanup of its
\* frame, so it is in the registry before and after the step)
UpdatedBeyond(gap) ==
    \E k \in 1..Len(tracked_objects), l \in 1..Len(tracked_objects') :
      /\ tracked_objects'[l].id = tracked_objects[k].id
      /\ tracked_objects'[l].age > tracked_objects[k].age
      /\ tracked_objects'[l].last_seen_frame
           - tracked_objects[k].last_seen_frame > gap

\* C4 as stated: for every frame_skip, no track is updated by a detection of
\* a frame f with f - last_seen_frame > max_missing_frames just before the
\* update.
C4_NeverMatchedBeyondPatience ==
    [][ ~UpdatedBeyond(max_missing_frames) ]_vars

\* C4: for every frame_skip, no track is updated by a detection of a frame f
\* with f - last_seen_frame > max_missing_frames + frame_skip just before
\* the update: expiry is evaluated after the matching of each processed
\* frame, so a track survives until the first processed frame that is more
\* than max_missing_frames after its last sighting and on which it is not
\* matched.
C4_NeverMatchedBeyondPatiencePlusStride ==
    [][ ~UpdatedBeyond(max_missing_frames + frame_skip) ]_vars

\* a track was created, missed on the processed frames up to
\* last_seen_frame + max_missing_frames, and matched again on the next
\* processed frame, max_missing_frames + frame_skip after its creation
C4_Witness ==
    \E t \in Slots, k \in 1..Len(tracked_objects), i \in 1..Len(CurrentList) :
      /\ Healthy(t)
      /\ max_missing_frames >= 1
      /\ tracked_objects[k].age = 2
      /\ CurrentList[i].id = tracked_objects[k].id
      /\ tracked_objects[k].last_seen_frame - CurrentList[i].frame_number
           = max_missing_frames + frame_skip

\* the detector reports the same single box on every processed frame
SameBoxEveryFrame(log) ==
    /\ log # <<>>
    /\ Len(log[1].dets) = 1
    /\ \A i \in 1..Len(log) : log[i].dets = log[1].dets

\* C5: when the detector reports one object with the identical box on every
\* processed frame, the list holds exactly one record, cut from the first
\* frame and carrying that box, for every number of frames, every frame_skip
\* and every max_missing_frames.
C5_StationaryObjectOneRecord ==
    \A t \in Slots :
      Healthy(t) /\ SameBoxEveryFrame(detlog[t]) =>
        /\ Len(CurrentList) = 1
        /\ CurrentList[1].frame_number = detlog[t][1].frame
        /\ CurrentList[1].bbox = detlog[t][1].dets[1].bbox

\* an invocation has returned one record for a box seen on three or more
\* frames in a row
C5_Witness ==
    \E t \in Slots :
      /\ pc[t] = "done"
      /\ Len(detlog[t]) >= 3
      /\ SameBoxEveryFrame(detlog[t])
      /\ Len(heap[result[t]]) = 1
      /\ heap[result[t]][1].frame_number = 0

\* C6: once the source was opened it is released on every exit of
\* process_video, cancellation at a suspension point included, and frames
\* are read only from an open handle.
C6_SourceReleasedOnEveryExit ==
    \A t \in Slots :
      /\ pc[t] \in Terminal /\ cap[t] # "none" => cap[t] = "released"
      /\ pc[t] = "read" => cap[t] = "open"

\* the step is a call of process_video in slot t that fails on a
\* precondition: the detector is not loaded or the source cannot be opened
PreconditionFailure(t) ==
    /\ calls' = calls + 1
    /\ inv'[t] = calls'
    /\ pc'[t] = "failed"
    /\ err'[t] \in { "not_loaded", "cannot_open" }

\* C7: a call that fails on a precondition leaves the track registry, the
\* contents of the result list and the stored frame_skip as they were, and
\* neither invokes the detector nor emits a progress event.
C7_PreconditionFailureMutatesNothing ==
    [][ \A t \in Slots :
          PreconditionFailure(t) =>
            /\ tracked_objects' = tracked_objects
            /\ heap'[unique_detections'] = heap[unique_detections]
            /\ frame_skip' = frame_skip
            /\ detlog'[t] = <<>>
            /\ events'[t] = <<>> ]_vars

\* the snapshot reports 100 percent
Is100(e) == e.percentage[1] = 100 * e.percentage[2]

\* the invocation in slot t has ended after cap.read() reported the end of
\* the source
EndedAtEndOfSource(t) ==
    /\ pc[t] \in Terminal
    /\ cap[t] = "released"
    /\ err[t] # "cannot_open"
    /\ frame_number[t] >= video[t].nframes

\* C8: an invocation that reaches the end of its source, whose detector and
\* sink did not fail and which was not cancelled, returns a list, and the
\* last snapshot it delivered, if it delivered any, reports 100 percent;
\* for every source, one without frames or with a reported total of 0
\* included.
C8_EndOfSourceReturnsAndReports100 ==
    \A t \in Slots :
      /\ EndedAtEndOfSource(t)
      /\ pc[t] # "cancelled"
      /\ err[t] \notin { "detector", "sink" }
      => /\ pc[t] = "done"
         /\ result[t] \in returned
         /\ events[t] # <<>> => Is100(Last(events[t]))

\* C9: for a source of N >= 1 frames that reports N, under every
\* frame_skip, the percentages delivered are non-decreasing, 100 is
\* delivered at most once and only as the last event after the loop, and an
\* invocation that returns after delivering events delivered 100 last.
C9_ProgressMonotoneAndFinal100 ==
    \A t \in Slots :
      video[t].nframes >= 1 /\ video[t].total = video[t].nframes =>
        /\ \A i, j \in 1..Len(events[t]) :
             i < j => ~FracLess(events[t][j].percentage, events[t][i].percentage)
        /\ \A i \in 1..Len(events[t]) :
             Is100(events[t][i]) =>
               i = Len(events[t]) /\ frame_number[t] >= video[t].nframes
        /\ pc[t] = "await_final" \/ (pc[t] = "done" /\ events[t] # <<>>) =>
             Is100(Last(events[t]))

\* an invocation has returned after delivering three or more snapshots
C9_Witness ==
    \E t \in Slots :
      /\ pc[t] = "done"
      /\ video[t].total = video[t].nframes
      /\ Len(events[t]) >= 3
      /\ Is100(Last(events[t]))
      /\ ~Is100(events[t][Len(events[t]) - 1])

\* the frames of a log processed one after the other from engine state st
RECURSIVE ReplayFrom(_, _, _, _)
ReplayFrom(st, log, i, mmf) ==
    IF i > Len(log) THEN st
    ELSE ReplayFrom(ProcessFrameDetections(st, log[i].dets, log[i].frame, mmf, 0),
                    log, i + 1, mmf)

\* the records a service instance that never ran before produces for a log
FreshRun(log, mmf) ==
    ReplayFrom([ tracks |-> <<>>, uds |-> <<>>, next_id |-> 1, created |-> <<>>,
                 shape |-> << FrameHeight, FrameWidth >> ],
               log, 1, mmf).uds

\* a record without its uuid and the invocation it belongs to
Content(r) ==
    [ frame_number |-> r.frame_number, bbox |-> r.bbox,
      class_name |-> r.class_name, confidence |-> r.confidence ]

SameContent(a, b) ==
    /\ Len(a) = Len(b)
    /\ \A i \in 1..Len(a) : Content(a[i]) = Content(b[i])

\* registry and list are empty when an invocation's first frame is reached,
\* and all that an invocation works on and returns is its own and is what a
\* fresh instance would have produced from the same frames
StartsFromNothing ==
    \A t \in Slots :
      /\ pc[t] \in { "read", "await_progress", "detect" }
           /\ processed_frames[t] = 0 =>
             tracked_objects = <<>> /\ CurrentList = <<>>
      /\ Healthy(t) =>
           /\ \A k \in 1..Len(tracked_objects) :
                tracked_objects[k].id \in Range(created[t])
           /\ \A i \in 1..Len(CurrentList) : CurrentList[i].owner = inv[t]
           /\ SameContent(CurrentList, FreshRun(detlog[t], max_missing_frames))
      /\ pc[t] = "done" => result[t] = unique_detections

\* a step leaves every list handed to a caller as it is
KeepsReturnedLists == \A r \in returned : heap'[r] = heap[r]

\* C10: at the start of every invocation registry and list are empty; an
\* invocation works on and returns only tracks and records of its own, the
\* list it returns is the one a fresh service instance produces from the
\* same frames, and no list returned earlier is ever changed.
C10_EveryInvocationStartsFromNothing ==
    []StartsFromNothing /\ [][KeepsReturnedLists]_vars

\* a second invocation has returned a non-empty list while the non-empty
\* list of the first is still with its caller
C10_Witness ==
    /\ calls = 2
    /\ pc[1] = "done"
    /\ heap[result[1]] # <<>>
    /\ \E r \in returned : r # result[1] /\ heap[r] # <<>>

\* an engine state without what is opaque in it: a record without its uuid
\* and invocation, a track with the position of its record in place of its
\* uuid
RecordPosition(uds, id) ==
    IF \E i \in 1..Len(uds) : uds[i].id = id
      THEN CHOOSE i \in 1..Len(uds) : uds[i].id = id
      ELSE 0

Anonymous(tracks, uds) ==
    [ tracks |-> [ k \in 1..Len(tracks) |->
                     [ tracks[k] EXCEPT !.id = RecordPosition(uds, @) ] ],
      uds |-> [ i \in 1..Len(uds) |-> [ uds[i] EXCEPT !.id = 0, !.owner = 0 ] ] ]

\* the engine state a second run reaches on the frames of the invocation in
\* slot t
SecondRun(t) ==
    ReplayFrom([ tracks |-> <<>>, uds |-> <<>>, next_id |-> 1, created |-> <<>>,
                 shape |-> << video[t].height, video[t].width >> ],
               detlog[t], 1, max_missing_frames)

\* registry and list are those of a second run on the same frames, whatever
\* the sink, the suspensions and the reported totals of this run were
SameAsSecondRun ==
    \A t \in Slots :
      Healthy(t) =>
        Anonymous(tracked_objects, CurrentList)
          = Anonymous(SecondRun(t).tracks, SecondRun(t).uds)

\* the track at position l after the step took detection det in the step
Took(l, det) ==
    /\ Last(tracked_objects'[l].bbox_history) = det.bbox
    /\ Last(tracked_objects'[l].confidence_history) = det.confidence

\* the step updates the track at position k, found at position l afterwards
UpdatedTo(k, l) ==
    /\ tracked_objects'[l].id = tracked_objects[k].id
    /\ tracked_objects'[l].age = tracked_objects[k].age + 1

\* when the frame of the step holds two different detections that are
\* eligible for a track with the same score and the track takes the later
\* one, the earlier one was taken by a track earlier in the registry
EarlierWinsTies ==
    \A t \in Slots :
      Len(detlog'[t]) = Len(detlog[t]) + 1 =>
        \A k \in 1..Len(tracked_objects), l \in 1..Len(tracked_objects') :
          UpdatedTo(k, l) =>
            \A i, j \in 1..Len(Last(detlog'[t]).dets) :
              /\ i < j
              /\ Took(l, Last(detlog'[t]).dets[j])
              /\ Last(detlog'[t]).dets[i] # Last(detlog'[t]).dets[j]
              /\ Eligible(Last(detlog'[t]).dets[i], tracked_objects[k])
              /\ Score(Last(detlog'[t]).dets[i], tracked_objects[k])
                   = Score(Last(detlog'[t]).dets[j], tracked_objects[k])
              => \E k2 \in 1..(k - 1), l2 \in 1..Len(tracked_objects') :
                   UpdatedTo(k2, l2) /\ Took(l2, Last(detlog'[t]).dets[i])

\* C11: the assignment of detections to tracks and the list of records are
\* a function of the processed frames' detections, the thresholds and
\* frame_skip alone (a second run on the same frames gives the same, up to
\* the uuids), and of two different detections with equal score for a track
\* the one earlier in the detector's output is taken.
C11_SameInputsSameAssignment ==
    []SameAsSecondRun /\ [][EarlierWinsTies]_vars

\* a track was offered DetA and DetD, which tie for it, in one frame: it
\* took DetA, the first, and DetD started a track of its own
C11_Witness ==
    \E t \in Slots, k \in 1..Len(tracked_objects), i \in 1..Len(CurrentList) :
      /\ Healthy(t)
      /\ tracked_objects[k].age >= 2
      /\ Last(tracked_objects[k].confidence_history) = DetA.confidence
      /\ CurrentList[i].confidence = DetD.confidence
      /\ CurrentList[i].bbox = Last(tracked_objects[k].bbox_history)
      /\ CurrentList[i].frame_number = tracked_objects[k].last_seen_frame
      /\ CurrentList[i].id # tracked_objects[k].id

\* by its geometry the detection is not eligible for the track: iou <=
\* iou_threshold and centre distance >= distance_threshold against the
\* track's most recent box
OutOfReach(detection, trk) ==
    /\ CalculateIou(detection, trk)[1] * IouThresholdDen
         <= IouThresholdNum * CalculateIou(detection, trk)[2]
    /\ CalculateCenterDistance2(detection, trk) >= 2 * DistanceThreshold

AllOutOfReach(detections, tracks) ==
    \A i \in 1..Len(detections), k \in 1..Len(tracks) :
      OutOfReach(detections[i], tracks[k])

\* on every frame of the log from entry i on, processed from engine state
\* st, no detection is in reach of a track alive when the frame arrives
RECURSIVE NeverInReachFrom(_, _, _, _)
NeverInReachFrom(st, log, i, mmf) ==
    IF i > Len(log) THEN TRUE
    ELSE /\ AllOutOfReach(log[i].dets, st.tracks)
         /\ NeverInReachFrom(
                ProcessFrameDetections(st, log[i].dets, log[i].frame, mmf, 0),
                log, i + 1, mmf)

NeverInReach(log, mmf) ==
    NeverInReachFrom([ tracks |-> <<>>, uds |-> <<>>, next_id |-> 1,
                       created |-> <<>>,
                       shape |-> << FrameHeight, FrameWidth >> ],
                     log, 1, mmf)

\* the number of raw detections in the log
RECURSIVE RawDetections(_)
RawDetections(log) ==
    IF log = <<>> THEN 0
    ELSE Len(log[1].dets) + RawDetections(Tail(log))

\* as many records as raw detections when no detection was ever in reach
CountsRawDetections ==
    \A t \in Slots :
      Healthy(t) /\ NeverInReach(detlog[t], max_missing_frames) =>
        Len(CurrentList) = RawDetections(detlog[t])

\* a frame none of whose detections is in reach of a live track updates no
\* track and appends one record per detection, in the detector's order
OutOfReachStartsTracks ==
    \A t \in Slots :
      /\ Len(detlog'[t]) = Len(detlog[t]) + 1
      /\ AllOutOfReach(Last(detlog'[t]).dets, tracked_objects)
      => /\ Len(heap'[unique_detections'])
              = Len(CurrentList) + Len(Last(detlog'[t]).dets)
         /\ \A i \in 1..Len(Last(detlog'[t]).dets) :
              heap'[unique_detections'][Len(CurrentList) + i].bbox
                = Last(detlog'[t]).dets[i].bbox
         /\ \A k \in 1..Len(tracked_objects), l \in 1..Len(tracked_objects') :
              ~UpdatedTo(k, l)

\* C12: a frame none of whose detections is eligible, by its geometry, for
\* any live track turns every detection into a track and a record of its
\* own; when that is so on every processed frame, the number of records
\* equals the number of raw detections.
C12_NoOverlapNoMerge ==
    []CountsRawDetections /\ [][OutOfReachStartsTracks]_vars

\* an invocation has returned three or more records, one per raw detection,
\* and the last of them was started while another track was alive
C12_Witness ==
    \E t \in Slots :
      /\ pc[t] = "done"
      /\ NeverInReach(detlog[t], max_missing_frames)
      /\ Len(heap[result[t]]) >= 3
      /\ Len(heap[result[t]]) = RawDetections(detlog[t])
      /\ Len(detlog[t]) >= 3
      /\ \A i \in 1..Len(detlog[t]) : detlog[t][i].dets # <<>>

\* record r was built from detection det of frame f
BuiltFrom(r, det, f) ==
    /\ r.frame_number = f
    /\ r.bbox = det.bbox
    /\ r.class_name = det.class_name
    /\ r.confidence = det.confidence
    /\ r.model_suggestions = GenerateModelSuggestions(det)

\* every record carries the frame, box, class, confidence and suggestions of
\* a detection of the frame it names, and a live track of the same id was
\* created on that frame
FirstSeenPose ==
    \A t \in Slots :
      Healthy(t) =>
        \A i \in 1..Len(CurrentList) :
          /\ \E n \in 1..Len(detlog[t]) :
               \E d \in 1..Len(detlog[t][n].dets) :
                 BuiltFrom(CurrentList[i], detlog[t][n].dets[d], detlog[t][n].frame)
          /\ \A k \in 1..Len(tracked_objects) :
               tracked_objects[k].id = CurrentList[i].id =>
                 /\ tracked_objects[k].last_seen_frame >= CurrentList[i].frame_number
                 /\ tracked_objects[k].age = 1 =>
                      /\ tracked_objects[k].last_seen_frame = CurrentList[i].frame_number
                      /\ Last(tracked_objects[k].bbox_history) = CurrentList[i].bbox

\* a step of an invocation leaves every record of its list as it is
RecordsFrozen ==
    \A t \in Slots :
      Healthy(t) /\ unique_detections' = unique_detections =>
        \A i \in 1..Len(CurrentList) : heap'[unique_detections][i] = CurrentList[i]

\* C13: a record, once appended, keeps the frame index, box, class,
\* confidence and suggestions of the detection that created its track for
\* the rest of the invocation, whatever updates the track afterwards and
\* also after the track has expired.
C13_RecordKeepsFirstSeenPose ==
    []FirstSeenPose /\ [][RecordsFrozen]_vars

\* one record's track has since been updated by a detection at another
\* position and confidence, another record's track has expired
C13_Witness ==
    \E t \in Slots, i, j \in 1..Len(CurrentList) :
      /\ Healthy(t)
      /\ \E k \in 1..Len(tracked_objects) :
           /\ tracked_objects[k].id = CurrentList[i].id
           /\ Last(tracked_objects[k].bbox_history) # CurrentList[i].bbox
           /\ Last(tracked_objects[k].confidence_history) # CurrentList[i].confidence
      /\ \A k \in 1..Len(tracked_objects) :
           tracked_objects[k].id # CurrentList[j].id

\* the invocation of slot t has been ended by an error of the detector
DetectorFailed(t) == err[t] = "detector"

\* after the detector's error the invocation is over with nothing returned,
\* on a frame of the source that was never processed, and every snapshot it
\* emitted belongs to a frame read up to then
EndedByDetector ==
    \A t \in Slots :
      DetectorFailed(t) =>
        /\ pc[t] = "failed"
        /\ result[t] = 0
        /\ returned = {}
        /\ cap[t] = "released"
        /\ running # t
        /\ frame_number[t] < video[t].nframes
        /\ \A n \in 1..Len(detlog[t]) : detlog[t][n].frame < frame_number[t]
        /\ Len(events[t]) <= Len(detlog[t]) + 1
        /\ \A n \in 1..Len(events[t]) :
             events[t][n].current_frame <= frame_number[t]

\* after the detector's error the invocation reads no frame, processes
\* none, emits no snapshot and changes neither tracks nor records
NothingAfterDetectorError ==
    \A t \in Slots :
      DetectorFailed(t) =>
        /\ pc'[t] = "failed" /\ err'[t] = "detector"
        /\ frame_number'[t] = frame_number[t]
        /\ processed_frames'[t] = processed_frames[t]
        /\ detlog'[t] = detlog[t]
        /\ events'[t] = events[t]
        /\ result'[t] = result[t]
        /\ UNCHANGED << tracked_objects, unique_detections, heap >>

\* C14: when the detector raises on a frame the error leaves process_video:
\* nothing is returned, no further frame is read or processed, and the
\* final 100% snapshot is not emitted.
C14_DetectorErrorEndsRun ==
    []EndedByDetector /\ [][NothingAfterDetectorError]_vars

\* the detector raised on a later frame, after records had been made and
\* snapshots emitted
C14_Witness ==
    \E t \in Slots :
      /\ DetectorFailed(t)
      /\ frame_number[t] >= 2
      /\ Len(CurrentList) >= 1
      /\ Len(events[t]) >= 2

\* frame.shape of the invocation of slot t
FrameShape(t) == << video[t].height, video[t].width >>

\* no image can be made of record r on the frames of slot t
Imageless(t, r) == CreateDetectionCropRaises(r.bbox, FrameShape(t))

\* both payloads of record r are empty
EmptyPayloads(r) ==
    r.full_frame_image_data = "" /\ r.frame_image_data = ""

\* both payloads of record r are data URLs
FullPayloads(r) ==
    r.full_frame_image_data # "" /\ r.frame_image_data # ""

\* the records are one per created track, and a record has empty payloads
\* exactly when no image can be made of its box
ImagelessRecordsKept ==
    \A t \in Slots :
      Healthy(t) =>
        /\ Len(CurrentList) = Len(created[t])
        /\ \A i \in 1..Len(CurrentList) :
             /\ CurrentList[i].id = created[t][i]
             /\ IF Imageless(t, CurrentList[i])
                  THEN EmptyPayloads(CurrentList[i])
                  ELSE FullPayloads(CurrentList[i])

\* the live tracks a step updates
UpdatedTracks ==
    { k \in 1..Len(tracked_objects) :
        \E j \in 1..Len(tracked_objects') :
          /\ tracked_objects'[j].id = tracked_objects[k].id
          /\ tracked_objects'[j].age = tracked_objects[k].age + 1 }

\* a frame with detections of which no image can be made is processed to
\* its end: every detection that updates no track gets its track and its one
\* record, and the invocation goes on to the next frame
ImageFailureGoesOn ==
    \A t \in Slots :
      pc[t] = "detect" /\ running = t /\ video[t].fps # 0 =>
        /\ pc'[t] = "failed" => err'[t] = "detector"
        /\ pc'[t] # "failed" =>
             /\ pc'[t] \in { "read", "sleep" }
             /\ frame_number'[t] = frame_number[t] + 1
             /\ Len(heap'[unique_detections]) =
                  Len(CurrentList) + Len(Last(detlog'[t]).dets)
                    - Cardinality(UpdatedTracks)
             /\ \A i \in (Len(CurrentList) + 1)..Len(heap'[unique_detections]) :
                  \E k \in 1..Len(tracked_objects') :
                    tracked_objects'[k].id = heap'[unique_detections][i].id

\* C15: when no image can be made of a new detection the run is not
\* aborted: the track is registered, exactly one record with empty image
\* payloads is appended, and the other detections of the frame and the
\* later frames are processed.
C15_ImageFailureKeepsRecord ==
    []ImagelessRecordsKept /\ [][ImageFailureGoesOn]_vars

\* a finished run: a frame gave one record with images and, after it, one
\* without, and a later frame was processed
C15_Witness ==
    \E t \in Slots, i, j \in 1..Len(CurrentList) :
      /\ pc[t] = "done"
      /\ i < j
      /\ CurrentList[i].frame_number = CurrentList[j].frame_number
      /\ FullPayloads(CurrentList[i])
      /\ EmptyPayloads(CurrentList[j])
      /\ \E k \in 1..Len(tracked_objects) :
           tracked_objects[k].id = CurrentList[j].id
      /\ \E n \in 1..Len(detlog[t]) :
           /\ detlog[t][n].frame > CurrentList[j].frame_number
           /\ detlog[t][n].dets # <<>>

\* the window of HistoryCap entries moved on by entry x
Slide(h, x) ==
    IF Len(h) < HistoryCap THEN Append(h, x) ELSE Append(Tail(h), x)

\* the three histories of a live track have one length, which is the
\* number of its updates up to HistoryCap and at least 1
HistoriesInStep ==
    \A k \in 1..Len(tracked_objects) :
      /\ Len(tracked_objects[k].track_history) =
           Len(tracked_objects[k].bbox_history)
      /\ Len(tracked_objects[k].confidence_history) =
           Len(tracked_objects[k].bbox_history)
      /\ Len(tracked_objects[k].bbox_history) >= 1
      /\ Len(tracked_objects[k].bbox_history) <= HistoryCap
      /\ Len(tracked_objects[k].bbox_history) =
           Min2(tracked_objects[k].age, HistoryCap)

\* track new is track old after an update by detection det
SlidBy(old, new, det) ==
    /\ new.bbox_history = Slide(old.bbox_history, det.bbox)
    /\ new.confidence_history = Slide(old.confidence_history, det.confidence)
    /\ new.track_history = Slide(old.track_history, Center2(det.bbox))

\* a processed frame moves the window of every track it updates on by one
\* of its detections and leaves the histories of the other tracks alone
HistoriesSlide ==
    \A t \in Slots :
      pc[t] = "detect" /\ detlog'[t] # detlog[t] =>
        \A k \in 1..Len(tracked_objects), j \in 1..Len(tracked_objects') :
          tracked_objects'[j].id = tracked_objects[k].id =>
            IF tracked_objects'[j].age = tracked_objects[k].age
              THEN tracked_objects'[j] = tracked_objects[k]
              ELSE /\ tracked_objects'[j].age = tracked_objects[k].age + 1
                   /\ \E d \in 1..Len(Last(detlog'[t]).dets) :
                        SlidBy(tracked_objects[k], tracked_objects'[j],
                               Last(detlog'[t]).dets[d])

\* C16: the three histories of a live track always have the same length L
\* with 1 <= L <= 10 and L = min(age, 10), and hold the positions,
\* confidences and boxes of its 10 most recent updates in arrival order; so
\* a live track never has an empty history.
C16_HistoriesBounded ==
    []HistoriesInStep /\ [][HistoriesSlide]_vars

\* a track updated more often than the cap, whose window has dropped its
\* first entries
C16_Witness ==
    \E k \in 1..Len(tracked_objects) :
      /\ tracked_objects[k].age > HistoryCap
      /\ Len(tracked_objects[k].bbox_history) = HistoryCap
      /\ tracked_objects[k].bbox_history[1] # Last(tracked_objects[k].bbox_history)

\* the engine's builder has returned its list for the probe
EngineAnswered == mode = "suggest" /\ answer.engine # <<>>

\* the probe's class is a key of the similarity table
InTable == GetSimilarClasses(probe.class_name) # << >>

\* C17: for every class and confidence the engine's suggestions are exactly
\* 3 entries, the first with the detection's class and confidence unscaled,
\* and for a class of the similarity table the second and third are the
\* table's first two alternates, in table order, at 0.8 times the confidence
\* (bicycle at 0.85: motorcycle 0.68, electric_scooter 0.68).
C17_ThreeSuggestions ==
    EngineAnswered =>
      /\ Len(answer.engine) = 3
      /\ answer.engine[1] =
           [type |-> probe.class_name, confidence |-> 10 * probe.confidence]
      /\ InTable =>
           \A i \in 1..2 :
             answer.engine[i + 1] =
               [type |-> GetSimilarClasses(probe.class_name)[i],
                confidence |-> 8 * probe.confidence]
      /\ probe.class_name = "bicycle" /\ probe.confidence = 85 =>
           answer.engine = << [type |-> "bicycle", confidence |-> 850],
                              [type |-> "motorcycle", confidence |-> 680],
                              [type |-> "electric_scooter", confidence |-> 680] >>

\* the engine's list for a bicycle at 0.85
C17_Witness ==
    /\ EngineAnswered
    /\ probe.class_name = "bicycle"
    /\ probe.confidence = 85
    /\ answer.engine[3].type = "electric_scooter"

\* C18: for a class outside the similarity table the engine's second and
\* third suggestions are generic fallback classes at 0.8 times the
\* confidence, the same as the resume endpoints' builder gives with car and
\* motorcycle; "unknown" at 0.6 times the confidence only pads what is
\* still short after alternates and fallbacks.
C18_FallbackAlternates ==
    EngineAnswered /\ ~InTable =>
      /\ \A i \in 2..3 :
           /\ answer.engine[i].type # "unknown"
           /\ answer.engine[i].confidence = 8 * probe.confidence
      /\ answer.resume # <<>> => answer.engine = answer.resume

\* the multiples of k below n
MultiplesBelow(n, k) == { f \in 0..(n - 1) : f % k = 0 }

\* the frames handed to the detector are the multiples of frame_skip among
\* the frames read so far, in order, each a frame of the source; the tracks
\* and records carry such frame indexes
OnlyMultiplesProcessed ==
    \A t \in Slots :
      pc[t] # "idle" =>
        /\ processed_frames[t] = Len(detlog[t])
        /\ \A n \in 1..Len(detlog[t]) :
             /\ detlog[t][n].frame = (n - 1) * frame_skip
             /\ detlog[t][n].frame < video[t].nframes
        /\ { detlog[t][n].frame : n \in 1..Len(detlog[t]) } =
             MultiplesBelow(frame_number[t], frame_skip)
        /\ \A k \in 1..Len(tracked_objects) :
             /\ tracked_objects[k].last_seen_frame % frame_skip = 0
             /\ tracked_objects[k].last_seen_frame < video[t].nframes
        /\ \A i \in 1..Len(CurrentList) :
             /\ CurrentList[i].frame_number % frame_skip = 0
             /\ CurrentList[i].frame_number < video[t].nframes

\* a frame whose index is no multiple of frame_skip is read and dropped: the
\* frame counter moves on by one and nothing else of the invocation changes
SkippedFrameCounts ==
    \A t \in Slots :
      /\ pc[t] = "read" /\ running = t
      /\ frame_number[t] < video[t].nframes
      /\ frame_number[t] % frame_skip # 0
      => /\ frame_number'[t] = frame_number[t] + 1
         /\ pc'[t] = "read"
         /\ UNCHANGED << tracked_objects, unique_detections, heap, detlog,
                         processed_frames, events, created >>

\* C20: with frame_skip = k >= 1 the detector and the tracking step run
\* exactly on the frames whose source index is a multiple of k; the other
\* frames are read and dropped but advance the frame counter, so every
\* last_seen_frame and every record's frame_number is a multiple of k and an
\* index into the source, not a count of processed frames.
C20_OnlyMultiplesOfSkip ==
    []OnlyMultiplesProcessed /\ [][SkippedFrameCounts]_vars

\* a finished run with frame_skip 2 whose second processed frame, source
\* index 2, gave a record
C20_Witness ==
    \E t \in Slots, i \in 1..Len(CurrentList) :
      /\ pc[t] = "done"
      /\ frame_skip = 2
      /\ CurrentList[i].frame_number = 2
      /\ processed_frames[t] = 2
      /\ frame_number[t] > 3

\* ways of replacing the class labels: all by one label, and an exchange
LabelledClasses == { "bicycle", "car", "motorcycle" }
Relabellings ==
    { [ c \in LabelledClasses |-> "car" ],
      [ c \in LabelledClasses |->
          CASE c = "bicycle" -> "car"
            [] c = "car" -> "motorcycle"
            [] OTHER -> "bicycle" ] }

\* the detections of a frame under relabelling f, the boxes kept
RelabelledDets(dets, f) ==
    [ d \in 1..Len(dets) |-> [ dets[d] EXCEPT !.class_name = f[@] ] ]

RelabelledLog(log, f) ==
    [ n \in 1..Len(log) |->
        [ frame |-> log[n].frame, dets |-> RelabelledDets(log[n].dets, f) ] ]

\* an engine state without uuids and without what is derived from the
\* class labels
Unlabelled(st) ==
    [ tracks |-> [ k \in 1..Len(st.tracks) |->
                     [ st.tracks[k] EXCEPT !.id = RecordPosition(st.uds, @),
                                           !.class_name = "" ] ],
      uds |-> [ i \in 1..Len(st.uds) |->
                  [ st.uds[i] EXCEPT !.id = 0, !.owner = 0, !.class_name = "",
                                     !.model_suggestions = <<>> ] ] ]

\* the engine state reached on the frames of slot t under relabelling f
RelabelledRun(t, f) ==
    ReplayFrom([ tracks |-> <<>>, uds |-> <<>>, next_id |-> 1, created |-> <<>>,
                 shape |-> << video[t].height, video[t].width >> ],
               RelabelledLog(detlog[t], f), 1, max_missing_frames)

\* slot t has just come through a frame (or is about to read its first)
FrameDone(t) == pc[t] \in { "read", "sleep" }

\* after every processed frame tracks, histories and records are the same,
\* class labels aside, as when the labels of all detections are replaced;
\* and a live track carries the class of its record, that is of the
\* detection that created it
LabelsDoNotMatter ==
    \A t \in Slots :
      Healthy(t) =>
        /\ \A f \in Relabellings :
             FrameDone(t) =>
               Unlabelled([ tracks |-> tracked_objects, uds |-> CurrentList ])
                 = Unlabelled(RelabelledRun(t, f))
        /\ \A k \in 1..Len(tracked_objects), i \in 1..Len(CurrentList) :
             tracked_objects[k].id = CurrentList[i].id =>
               tracked_objects[k].class_name = CurrentList[i].class_name

\* an update leaves the class of the track as it is
ClassKeptOnUpdate ==
    \A k \in 1..Len(tracked_objects), l \in 1..Len(tracked_objects') :
      tracked_objects'[l].id = tracked_objects[k].id =>
        tracked_objects'[l].class_name = tracked_objects[k].class_name

\* C19: matching depends on the boxes only: with the class labels of the
\* detections replaced and the boxes kept, every frame assigns the same
\* detections to the same tracks and as many tracks and records are
\* created; a detection eligible for a track of another class updates it
\* without a record, and the track keeps the class of the detection that
\* created it.
C19_MatchingIgnoresClass ==
    []LabelsDoNotMatter /\ [][ClassKeptOnUpdate]_vars

\* a bicycle track that a motorcycle detection has updated: one track, one
\* record, class bicycle
C19_Witness ==
    \E t \in Slots :
      /\ Healthy(t)
      /\ Len(tracked_objects) = 1
      /\ Len(CurrentList) = 1
      /\ tracked_objects[1].class_name = "bicycle"
      /\ CurrentList[1].class_name = "bicycle"
      /\ tracked_objects[1].age >= 2
      /\ Last(tracked_objects[1].bbox_history) = DetD.bbox
      /\ Last(tracked_objects[1].confidence_history) = DetD.confidence
      /\ \E n \in 1..Len(detlog[t]) : detlog[t][n].dets = << DetD >>

\* the list process_video has returned for slot t
ReturnedList(t) == heap[result[t]]

\* the entry of the log of slot t for frame f
EntryOf(t, f) ==
    detlog[t][CHOOSE n \in 1..Len(detlog[t]) : detlog[t][n].frame = f]

\* records a and b of one frame were built from detections the detector
\* returned in this order
InDetectorOrder(t, a, b) ==
    \E d1, d2 \in 1..Len(EntryOf(t, a.frame_number).dets) :
      /\ d1 < d2
      /\ BuiltFrom(a, EntryOf(t, a.frame_number).dets[d1], a.frame_number)
      /\ BuiltFrom(b, EntryOf(t, a.frame_number).dets[d2], a.frame_number)

\* list l is in creation order for slot t
CreationOrder(t, l) ==
    \A i, j \in 1..Len(l) :
      i < j =>
        /\ l[i].frame_number <= l[j].frame_number
        /\ l[i].frame_number = l[j].frame_number => InDetectorOrder(t, l[i], l[j])

\* C21: the list process_video returns is in creation order: frame_number
\* does not decrease along it, and the records of one frame are in the order
\* in which the detector returned their detections.
C21_ReturnedInCreationOrder ==
    \A t \in Slots :
      /\ Healthy(t) => CreationOrder(t, CurrentList)
      /\ pc[t] = "done" =>
           /\ ReturnedList(t) = CurrentList
           /\ CreationOrder(t, ReturnedList(t))

\* a returned list with two records of one frame and a record of a later
\* frame
C21_Witness ==
    \E t \in Slots :
      /\ pc[t] = "done"
      /\ Len(ReturnedList(t)) >= 3
      /\ ReturnedList(t)[1].frame_number = ReturnedList(t)[2].frame_number
      /\ ReturnedList(t)[1].bbox # ReturnedList(t)[2].bbox
      /\ ReturnedList(t)[2].frame_number < ReturnedList(t)[3].frame_number

\* the crop of the probe has been computed
Cropped == mode = "crop" /\ answer.crop # <<>>

\* C22: the crop of a new detection is exactly 224 by 224 pixels for every
\* box of width >= 1 and height >= 1, of any aspect ratio and at any
\* position, also when the padded region is clipped by the frame border.
C22_CropAlwaysSquare ==
    Cropped /\ probe.bbox.width >= 1 /\ probe.bbox.height >= 1 =>
      answer.crop = << TargetSize, TargetSize >>

\* the step processes a frame of slot t
FrameProcessed(t) == Len(detlog'[t]) = Len(detlog[t]) + 1

\* the position, in the detector's list of the frame the step processes, of
\* the detection that the track at position k takes; 0 when it takes none
TakenBy(t, k) ==
    IF \E d \in 1..Len(Last(detlog'[t]).dets), l \in 1..Len(tracked_objects') :
         UpdatedTo(k, l) /\ Took(l, Last(detlog'[t]).dets[d])
      THEN CHOOSE d \in 1..Len(Last(detlog'[t]).dets) :
             \E l \in 1..Len(tracked_objects') :
               UpdatedTo(k, l) /\ Took(l, Last(detlog'[t]).dets[d])
      ELSE 0

\* the detections that no track before position k has taken
LeftFor(t, k) ==
    { d \in 1..Len(Last(detlog'[t]).dets) :
        \A k2 \in 1..(k - 1) : TakenBy(t, k2) # d }

\* detection a is a better choice for the track than detection b at a later
\* or earlier position: strictly lower score, or the same and earlier
Preferred(a, pa, b, pb, trk) ==
    \/ FracLess(Score(a, trk), Score(b, trk))
    \/ Score(a, trk) = Score(b, trk) /\ pa < pb

\* in registry order every track takes, of the detections left to it, the
\* one in its reach that is preferred to every other one in its reach, and
\* takes none when none is in its reach
TakesBestInReach ==
    \A t \in Slots :
      FrameProcessed(t) =>
        \A k \in 1..Len(tracked_objects) :
          IF TakenBy(t, k) = 0
            THEN \A e \in LeftFor(t, k) :
                   OutOfReach(Last(detlog'[t]).dets[e], tracked_objects[k])
            ELSE /\ TakenBy(t, k) \in LeftFor(t, k)
                 /\ ~OutOfReach(Last(detlog'[t]).dets[TakenBy(t, k)],
                                tracked_objects[k])
                 /\ \A e \in LeftFor(t, k) \ { TakenBy(t, k) } :
                      \/ OutOfReach(Last(detlog'[t]).dets[e], tracked_objects[k])
                      \/ Preferred(Last(detlog'[t]).dets[TakenBy(t, k)],
                                   TakenBy(t, k),
                                   Last(detlog'[t]).dets[e], e,
                                   tracked_objects[k])

\* C23: the matching step takes the tracks in creation order and gives each
\* the detection, among those not yet assigned in the frame, that has
\* iou > iou_threshold or distance < distance_threshold (both strict,
\* against the track's most recent box) and the least
\* (1 - iou) + distance / distance_threshold, the earliest in detector
\* order among equal scores; a track without such a detection gets none.
C23_TrackTakesBestEligible == [][TakesBestInReach]_vars

\* detections exactly on the distance threshold and exactly on the IoU
\* threshold have started tracks of their own
OnThresholdOutOfReach ==
    \E t \in Slots :
      /\ Healthy(t)
      /\ video[t].script = "edge"
      /\ \E i, j \in 1..Len(CurrentList) :
           CurrentList[i].bbox = BoxH /\ CurrentList[j].bbox = BoxJ

\* the first track took the second detection of the frame, which scores
\* better for it than the first, also in its reach
C23_Witness ==
    \E t \in Slots :
      /\ Healthy(t)
      /\ video[t].script = "between"
      /\ Len(tracked_objects) >= 2
      /\ tracked_objects[1].age = 2
      /\ Last(tracked_objects[1].bbox_history) = BoxG
      /\ \E i \in 1..Len(CurrentList) : CurrentList[i].bbox = BoxF

\* the frame slot t processed last
LastFrame(t) == Last(detlog[t]).frame

\* after a processed frame f every track of the registry was seen on f or
\* at most max_missing_frames source frames before it
LiveWithinPatience ==
    \A t \in Slots :
      Healthy(t) /\ detlog[t] # <<>> =>
        \A k \in 1..Len(tracked_objects) :
          /\ LastFrame(t) - tracked_objects[k].last_seen_frame >= 0
          /\ LastFrame(t) - tracked_objects[k].last_seen_frame
               <= max_missing_frames

\* the track at position k is in the registry after the step
Survives(k) ==
    \E l \in 1..Len(tracked_objects') :
      tracked_objects'[l].id = tracked_objects[k].id

\* a processed frame f removes exactly the tracks it did not update that
\* were last seen more than max_missing_frames before f, leaves the other
\* tracks it did not update as they are, keeps every record, and adds
\* records only for the tracks it creates
ExpiryOnlyRemovesTracks ==
    \A t \in Slots :
      FrameProcessed(t) =>
        /\ \A k \in 1..Len(tracked_objects) :
             /\ Survives(k) <=>
                  \/ TakenBy(t, k) # 0
                  \/ Last(detlog'[t]).frame - tracked_objects[k].last_seen_frame
                       <= max_missing_frames
             /\ TakenBy(t, k) = 0 =>
                  \A l \in 1..Len(tracked_objects') :
                    tracked_objects'[l].id = tracked_objects[k].id =>
                      tracked_objects'[l] = tracked_objects[k]
        /\ unique_detections' = unique_detections
        /\ Len(heap'[unique_detections]) >= Len(CurrentList)
        /\ SubSeq(heap'[unique_detections], 1, Len(CurrentList)) = CurrentList
        /\ Len(heap'[unique_detections]) - Len(CurrentList)
             = Len(created'[t]) - Len(created[t])

\* C24: after each retained frame f every track left in the registry has
\* 0 <= f - last_seen_frame <= max_missing_frames and every track with
\* f - last_seen_frame > max_missing_frames is gone; the removal adds,
\* removes and alters no record and leaves the other tracks untouched.
C24_ExpiryWindow ==
    []LiveWithinPatience /\ [][ExpiryOnlyRemovesTracks]_vars

\* with max_missing_frames 1: one track missed the last frame and is kept,
\* another missed two frames and is gone, its record is still in the list
C24_Witness ==
    \E t \in Slots :
      /\ Healthy(t)
      /\ max_missing_frames = 1
      /\ detlog[t] # <<>>
      /\ Len(tracked_objects) = 1
      /\ LastFrame(t) - tracked_objects[1].last_seen_frame = 1
      /\ \E i \in 1..Len(CurrentList) :
           /\ CurrentList[i].id # tracked_objects[1].id
           /\ LastFrame(t) - CurrentList[i].frame_number = 2

\* of the two detections, the one at position b is in reach of both tracks
\* and the first track prefers it, the one at position a is in reach of the
\* first track only
Contested(dets, a, b, tracks) ==
    /\ ~OutOfReach(dets[b], tracks[1])
    /\ ~OutOfReach(dets[b], tracks[2])
    /\ ~OutOfReach(dets[a], tracks[1])
    /\ OutOfReach(dets[a], tracks[2])
    /\ Preferred(dets[b], b, dets[a], a, tracks[1])

\* in a frame with two live tracks and two detections of which one is
\* contested, the earlier track takes the contested detection, the later
\* track gets none and the other detection starts a track, although the
\* tracks taken in the opposite order are both matched
EarlierTrackTakesContested ==
    \A t \in Slots :
      /\ FrameProcessed(t)
      /\ Len(tracked_objects) = 2
      /\ Len(Last(detlog'[t]).dets) = 2
      => \A a, b \in 1..2 :
           a # b /\ Contested(Last(detlog'[t]).dets, a, b, tracked_objects) =>
             /\ TakenBy(t, 1) = b
             /\ TakenBy(t, 2) = 0
             /\ Len(created'[t]) = Len(created[t]) + 1
             /\ Last(heap'[unique_detections]).bbox = Last(detlog'[t]).dets[a].bbox
             /\ MatchDetectionsToTracks_LatestFirst(
                    tracked_objects, Last(detlog'[t]).dets).unmatched = <<>>

\* C25: matching is greedy in track order, not a minimum-cost assignment:
\* in a frame with two live tracks and two detections the earlier track
\* takes the detection that is the only one in reach of the later track,
\* which stays unmatched while the other detection starts a new track,
\* although the other assignment matches both; the opposite track order
\* gives another assignment.
C25_GreedyInTrackOrder == [][EarlierTrackTakesContested]_vars

\* after such a frame: the track of BoxA went to BoxG, the track of BoxE
\* was not updated, and BoxF has a track and a record of its own
C25_Witness ==
    \E t \in Slots :
      /\ Healthy(t)
      /\ max_missing_frames = 1
      /\ Len(detlog[t]) = 2
      /\ Len(tracked_objects) = 3
      /\ Last(tracked_objects[1].bbox_history) = BoxG
      /\ tracked_objects[1].age = 2
      /\ Last(tracked_objects[2].bbox_history) = BoxE
      /\ tracked_objects[2].age = 1
      /\ tracked_objects[2].last_seen_frame < LastFrame(t)
      /\ Last(tracked_objects[3].bbox_history) = BoxF
      /\ Len(CurrentList) = 3
      /\ CurrentList[3].bbox = BoxF

\* the invocation of slot t runs, or ran, with a sink installed
Sinked(t) ==
    /\ progress_callback
    /\ pc[t] # "idle"
    /\ pc[t] \in Terminal => events[t] # <<>> \/ err[t] = "zero_division"

\* the retained frames of slot t that have been read
RetainedRead(t) ==
    IF pc[t] \in { "await_progress", "detect" }
      THEN MultiplesBelow(frame_number[t] + 1, frame_skip)
      ELSE MultiplesBelow(frame_number[t], frame_skip)

\* the snapshots of an invocation that has not ended early are one per
\* retained frame read, with the frame's source index, in frame order, and
\* after the end of the source one more, before the list is returned
SnapshotsInStep ==
    \A t \in Slots :
      Sinked(t) /\ Healthy(t) =>
        /\ Len(events[t]) =
             Cardinality(RetainedRead(t))
               + (IF pc[t] \in { "await_final", "done" } THEN 1 ELSE 0)
        /\ \A n \in 1..Cardinality(RetainedRead(t)) :
             events[t][n].current_frame = (n - 1) * frame_skip
        /\ pc[t] \in { "await_final", "done" } =>
             /\ frame_number[t] >= video[t].nframes
             /\ Last(events[t]).current_frame = video[t].total

\* snapshots are delivered one at a time and never withdrawn, a skipped
\* frame delivers none, and the list is returned by a step that delivers
\* none
SnapshotsOnlyGrow ==
    \A t \in Slots :
      /\ Len(events'[t]) >= Len(events[t])
      /\ Len(events'[t]) <= Len(events[t]) + 1
      /\ SubSeq(events'[t], 1, Len(events[t])) = events[t]
      /\ pc[t] = "read" /\ Skipped(frame_number[t], frame_skip)
           /\ frame_number[t] < video[t].nframes => events'[t] = events[t]
      /\ pc[t] # "done" /\ pc'[t] = "done" /\ progress_callback =>
           /\ events'[t] = events[t]
           /\ pc[t] = "await_final"

\* C26: with a sink installed exactly one snapshot is delivered for each
\* retained frame, with the frame's source index as current_frame, and
\* exactly one final snapshot after the source is exhausted; none for a
\* skipped frame, in increasing frame order, all before the list is
\* returned.
C26_OneSnapshotPerRetainedFrame ==
    []SnapshotsInStep /\ [][SnapshotsOnlyGrow]_vars

\* a run with frame_skip 2 over 4 frames has returned after the snapshots
\* of the frames 0 and 2 and the final one
C26_Witness ==
    \E t \in Slots :
      /\ pc[t] = "done"
      /\ frame_skip = 2
      /\ video[t].nframes = 4
      /\ Len(events[t]) = 3
      /\ events[t][2].current_frame = 2
      /\ events[t][3].current_frame = video[t].total

\* nothing of slot u changes in the step
SlotUntouched(u) ==
    /\ pc'[u] = pc[u] /\ err'[u] = err[u] /\ cap'[u] = cap[u]
    /\ inv'[u] = inv[u] /\ video'[u] = video[u]
    /\ frame_number'[u] = frame_number[u]
    /\ processed_frames'[u] = processed_frames[u]
    /\ events'[u] = events[u] /\ result'[u] = result[u]
    /\ detlog'[u] = detlog[u] /\ created'[u] = created[u]

\* an invocation is suspended by the loop only when the number of retained
\* frames it has processed is a positive multiple of YieldEvery
SleepsOnTenth ==
    \A t \in Slots :
      pc[t] = "sleep" =>
        /\ processed_frames[t] > 0
        /\ processed_frames[t] % YieldEvery = 0
        /\ running # t

\* a processed frame is one step of the invocation that holds the event
\* loop, in which nothing of any other invocation changes; after it the
\* invocation is suspended exactly when its count of retained frames is a
\* multiple of YieldEvery; and while an invocation holds the event loop no
\* other invocation takes a step
YieldsAfterTenthOnly ==
    \A t \in Slots :
      /\ FrameProcessed(t) =>
           /\ pc[t] = "detect" /\ running = t
           /\ processed_frames'[t] = processed_frames[t] + 1
           /\ pc'[t] = "sleep" <=> processed_frames'[t] % YieldEvery = 0
           /\ pc'[t] # "sleep" => pc'[t] = "read" /\ running' = t
      /\ pc[t] = "read" /\ Skipped(frame_number[t], frame_skip)
           /\ frame_number[t] < video[t].nframes =>
             processed_frames'[t] = processed_frames[t] /\ pc'[t] = "read"
      /\ running = t =>
           \A u \in Slots \ { t } : SlotUntouched(u)

\* C27: the frame loop suspends itself after every 10th retained frame, so
\* at most 10 retained frames are processed between two yield points; the
\* count is of retained frames, not of source frames; and no step of
\* another invocation comes between the matching, track creation and expiry
\* of one frame.
C27_YieldEveryTenthRetainedFrame ==
    []SleepsOnTenth /\ [][YieldsAfterTenthOnly]_vars

\* an invocation is suspended after its 10th frame while another one, begun
\* in the meantime, is in its loop
C27_Witness ==
    \E t, u \in Slots :
      /\ t # u
      /\ pc[t] = "sleep"
      /\ processed_frames[t] = YieldEvery
      /\ inv[u] > inv[t]
      /\ pc[u] \in { "read", "detect", "await_progress" }

\* the detections of the frame the step processes for slot t
FrameDets(t) == Last(detlog'[t]).dets

\* the tracks, by position after the step, that the step has started
StartedTracks ==
    { l \in 1..Len(tracked_objects') :
        \A k \in 1..Len(tracked_objects) :
          tracked_objects[k].id # tracked_objects'[l].id }

\* the positions in the frame of the detections that no live track takes
LeftOver(t) ==
    { d \in 1..Len(FrameDets(t)) :
        \A k \in 1..Len(tracked_objects) : TakenBy(t, k) # d }

\* the n-th member of a set of positions, in increasing order
NthOf(S, n) == CHOOSE d \in S : Cardinality({ e \in S : e < d }) = n - 1

\* in a processed frame a live track is updated at most once and by one
\* detection, no detection updates two tracks, every detection either
\* updates a live track or starts a track, and the tracks started are one
\* per left-over detection, in the detector's order, each seen once
MatchingOneToOne ==
    \A t \in Slots :
      FrameProcessed(t) =>
        /\ \A k \in 1..Len(tracked_objects), l \in 1..Len(tracked_objects') :
             tracked_objects'[l].id = tracked_objects[k].id =>
               /\ tracked_objects'[l].age \in
                    { tracked_objects[k].age, tracked_objects[k].age + 1 }
               /\ UpdatedTo(k, l) => TakenBy(t, k) # 0
               /\ ~UpdatedTo(k, l) => tracked_objects'[l] = tracked_objects[k]
        /\ \A k, k2 \in UpdatedTracks : k # k2 => TakenBy(t, k) # TakenBy(t, k2)
        /\ Cardinality(UpdatedTracks) + Cardinality(StartedTracks)
             = Len(FrameDets(t))
        /\ Len(created'[t]) = Len(created[t]) + Cardinality(StartedTracks)
        /\ Cardinality(StartedTracks) = Cardinality(LeftOver(t))
        /\ Len(heap'[unique_detections'])
             = Len(CurrentList) + Cardinality(LeftOver(t))
        /\ \A l \in StartedTracks :
             /\ tracked_objects'[l].age = 1
             /\ Len(tracked_objects'[l].bbox_history) = 1
             /\ \E n \in 1..Cardinality(LeftOver(t)) :
                  /\ Took(l, FrameDets(t)[NthOf(LeftOver(t), n)])
                  /\ heap'[unique_detections'][Len(CurrentList) + n].id
                       = tracked_objects'[l].id
                  /\ heap'[unique_detections'][Len(CurrentList) + n].bbox
                       = FrameDets(t)[NthOf(LeftOver(t), n)].bbox

\* C28: within one frame matching is one-to-one and exhaustive: a detection
\* goes to at most one track and a track gets at most one detection, the
\* tracks updated and the tracks created are together as many as the
\* detections of the frame, and a track created in the frame is not matched
\* against the other detections of the frame, so that k left-over
\* detections start k tracks even when their boxes coincide.
C28_MatchingOneToOneAndExhaustive == [][MatchingOneToOne]_vars

\* two tracks started by one frame on the same box, each with its record
C28_Witness ==
    \E t \in Slots :
      /\ Healthy(t)
      /\ \E k, l \in 1..Len(tracked_objects) :
           /\ k < l
           /\ tracked_objects[k].age = 1 /\ tracked_objects[l].age = 1
           /\ tracked_objects[k].last_seen_frame = tracked_objects[l].last_seen_frame
           /\ Last(tracked_objects[k].bbox_history)
                = Last(tracked_objects[l].bbox_history)
           /\ \E i, j \in 1..Len(CurrentList) :
                /\ i < j
                /\ CurrentList[i].id = tracked_objects[k].id
                /\ CurrentList[j].id = tracked_objects[l].id
                /\ CurrentList[i].bbox = CurrentList[j].bbox
                /\ CurrentList[i].frame_number = CurrentList[j].frame_number

\* the live tracks that the step leaves without a detection
Unserved(t) == { k \in 1..Len(tracked_objects) : TakenBy(t, k) = 0 }

\* after the matching of a frame no left-over detection is in reach of the
\* most recent box of a live track that got no detection
NoPairLeft ==
    \A t \in Slots :
      FrameProcessed(t) =>
        \A k \in Unserved(t), d \in LeftOver(t) :
          OutOfReach(FrameDets(t)[d], tracked_objects[k])

\* C29: when the matching of a frame is over no eligible pair is left: for
\* every live track that got no detection and every detection that went to
\* no track, the detection fails the test against the track's most recent
\* box (iou <= iou_threshold and distance >= distance_threshold).
C29_NoEligiblePairLeft == [][NoPairLeft]_vars

\* a frame has left a live track without a detection and has started a
\* track for a detection out of that track's reach, while another live
\* track was updated
C29_Witness ==
    \E t \in Slots :
      /\ Healthy(t)
      /\ video[t].script = "between"
      /\ Len(detlog[t]) = 2
      /\ \E k, l, n \in 1..Len(tracked_objects) :
           /\ tracked_objects[k].age = 1
           /\ tracked_objects[k].last_seen_frame < LastFrame(t)
           /\ tracked_objects[l].age = 1
           /\ tracked_objects[l].last_seen_frame = LastFrame(t)
           /\ OutOfReach([bbox |-> Last(tracked_objects[l].bbox_history)],
                         tracked_objects[k])
           /\ tracked_objects[n].age = 2

\* the connections whose send_text the broadcast saw fail
Failed == { sending.disconnected[n] : n \in 1..Len(sending.disconnected) }

\* the broadcast has returned
Broadcasted == mode = "broadcast" /\ sending.pc = "done"

\* a broadcast during which no websocket was closed reaches every
\* connection that was registered when it began and whose send did not
\* fail, once
QuietBroadcastReachesAll ==
    Broadcasted /\ (\A c \in Connections : sockets[c] # "closed") =>
      \A c \in stayed \ Failed : received[c] = 1

\* C30: a broadcast delivers the message exactly once to every connection
\* that is registered from its start to its end, also when other
\* connections connect, disconnect or fail while it is suspended in a send;
\* a send that fails does not keep the message from the connections after
\* it.
C30_BroadcastReachesEveryStayer ==
    /\ \A c \in Connections : received[c] <= 1
    /\ Broadcasted => \A c \in stayed \ Failed : received[c] = 1

===========================================================================
